---- MODULE Spec2Model ----
(***************************************************************************)
(* The Model Context Protocol engine of nexus: the peer session            *)
(* (internal/mcp/client.go) and the host session (internal/mcp/server.go). *)
(* The two sessions are modelled side by side; each has its own            *)
(* specification (SpecClient, SpecServer) in which the other side is the   *)
(* environment that produces the inbound messages.                         *)
(***************************************************************************)
EXTENDS Integers, Sequences, FiniteSets, TLC

(***************************************************************************)
(* Bounds of the model.                                                    *)
(***************************************************************************)
\* requests one Client issues in a run (caps the nextID counter)
MaxCalls == 2
\* messages the host sends to the Client in a run
MaxIn == 2

(***************************************************************************)
(* The wire envelope: the "id" member of a JSON message, and the Go value  *)
(* an interface{} field holds for it.                                      *)
(***************************************************************************)
\* JSON forms of the id member: absent, a number, a string, an array
AbsentID == [j |-> "absent", v |-> 0]
NumID(n) == [j |-> "num", v |-> n]
StrID(n) == [j |-> "str", v |-> n]
ArrID(n) == [j |-> "arr", v |-> n]

\* Go values of MCPMessage.ID (interface{}): dynamic type and value
NilVal == [t |-> "nil", v |-> 0]
Int64Val(n) == [t |-> "int64", v |-> n]
Float64Val(n) == [t |-> "float64", v |-> n]

\* encoding/json decoding into interface{}: every JSON number becomes float64
DecodeIDAsInt64(w) ==
    CASE w.j = "absent" -> NilVal
      [] w.j = "num" -> Int64Val(w.v)
      [] w.j = "str" -> [t |-> "string", v |-> w.v]
      [] OTHER -> [t |-> "slice", v |-> w.v]

DecodeID(w) ==
    CASE w.j = "absent" -> NilVal
      [] w.j = "num" -> Float64Val(w.v)
      [] w.j = "str" -> [t |-> "string", v |-> w.v]
      [] OTHER -> [t |-> "slice", v |-> w.v]

\* JSON encoding of the id field (omitempty drops a nil interface)
EncodeID(x) ==
    CASE x.t = "nil" -> AbsentID
      [] x.t \in {"int64", "float64"} -> NumID(x.v)
      [] x.t = "string" -> StrID(x.v)
      [] OTHER -> ArrID(x.v)

\* a Go map key must be hashable: a slice (or map) key panics at run time
Hashable(x) == x.t # "slice"

Notification == "$/notification"

(***************************************************************************)
(* Peer session (Client).                                                  *)
(***************************************************************************)
\* goroutines of the application that call sendRequest
Callers == {"g1", "g2"}
ReqMethods == {"tools/call"}

\* a frame that ReadJSON cannot decode into an MCPMessage
Undecodable == "<undecodable>"

WireIDs == {AbsentID, ArrID(1)} \cup {NumID(n) : n \in 1..MaxCalls}
\* messages the host may send: a response (method ""), with a result or with
\* an error, a notification, or a frame that does not decode
InMsgs == [id : WireIDs, method : {""}, error : {"none", "boom"}, result : {"{}"}]
          \cup [id : WireIDs, method : {Notification}, error : {"none"}, result : {"{}"}]
          \cup {[id |-> AbsentID, method |-> Undecodable, error |-> "none",
                 result |-> ""]}
NoMsg == [id |-> AbsentID, method |-> "<nil>", error |-> "none", result |-> ""]

VARIABLES
    nextID,      \* Client.nextID
    responses,   \* Client.responses: key (Go value) -> channel
    chans,       \* the buffered channels made by sendRequest, by request id
    handlers,    \* Client.handlers: the methods with a registered handler
    cliConn,     \* Client.conn: "open" or "closed"
    sent,        \* messages written on the connection, in order
    inbound,     \* messages from the host not yet read by handleMessages
    hostSent,    \* number of messages the host has sent
    readerPc,    \* handleMessages: "read", "send", "stopped", "panicked"
    readerMsg,   \* the message handleMessages is delivering
    readerCh,    \* the channel handleMessages is sending into
    spawned,     \* notifications handed to a handler goroutine
    callPc,      \* sendRequest of each caller: "idle", "alloc", "write",
                 \* "select"
    callId,      \* the id the caller's sendRequest allocated
    callMethod,  \* the method of the caller's request
    ctx,         \* the caller's context: "active", "canceled", "deadline"
    ret,         \* what the caller's last sendRequest returned
    issued,      \* ids allocated so far, in allocation order
    initPc,      \* Initialize of each caller: "idle", "request"
    initRet      \* what the caller's last Initialize returned

clientVars == <<nextID, responses, chans, handlers, cliConn, sent, inbound,
                hostSent, readerPc, readerMsg, readerCh, spawned, callPc,
                callId, callMethod, ctx, ret, issued, initPc, initRet>>

\* the state of the host session
VARIABLES
    tools,       \* Server.tools: name -> Tool
    resources,   \* Server.resources: uri -> Resource
    prompts,     \* Server.prompts: name -> Prompt
    clients,     \* Server.clients: connection -> ClientState
    mu,          \* Server.mu: "unlocked", or "locked" by a holder that returned
    connPc,      \* HandleConnection per connection: "idle", "read", "handle",
                 \* "copy", "write", "cleanup", "closing", "closed"
    transport,   \* the connection: "up", "wdown" (writes fail), "down"
    cur,         \* the message whose handler waits for Server.mu
    last,        \* the loop iteration that took the last step: connection,
                 \* message, WriteJSON calls made so far
    out,         \* per connection: the answer built and not yet written
    appPc,       \* the application goroutine: "idle", or "blocked" in Register*
    appOp,       \* the Register* call that is blocked, and its argument
    appRet,      \* what the last Register* call returned
    nRegs        \* Register* calls made so far

serverVars == <<tools, resources, prompts, clients, mu, connPc, transport, cur,
                last, out, appPc, appOp, appRet, nRegs>>

\* the state of an application that uses package impl
VARIABLES
    model,       \* the types.Model the last NewModel call returned, or nil
    modelErr     \* the error the last call on the model returned, "" for nil

\* the state of an MCPModelMixin
VARIABLES
    mxServer,    \* MCPModelMixin.server: nil, or the registries of its Server
    mxClient,    \* MCPModelMixin.client: nil, or the Client it dialed
    mxErr,       \* the error the last call on the mixin returned, "" for nil
    mxStarts     \* servers started so far

mixinVars == <<mxServer, mxClient, mxErr, mxStarts>>

\* the state of a KnowledgeGraph and of its caller
VARIABLES
    kgNodes,     \* KnowledgeGraph.Nodes: the ids of the nodes stored
    kgEdges,     \* KnowledgeGraph.Edges: node id -> the edges added from it
    kgRet        \* what the last call on the graph returned

graphVars == <<kgNodes, kgEdges, kgRet>>

libVars == <<model, modelErr, mixinVars, graphVars>>

\* where the goroutines of a Client are inside an unlocked operation
VARIABLES
    started,     \* the request ids whose conn.WriteJSON call has begun
    notifying,   \* the goroutines inside the conn.WriteJSON of sendNotification
    lookup,      \* the inbound message (by position) whose handler lookup began
    regStarted,  \* a RegisterNotificationHandler call has begun its map write
    overlapped   \* the goroutines whose conn.WriteJSON call, begun last, has
                 \* been in progress together with another one

raceVars == <<started, notifying, lookup, regStarted, overlapped>>

\* capacity of the channel made at client.go:173
ChanCap == 1

\* the key under which sendRequest stores its channel: the int64 from nextID
KeyOf(id) == Int64Val(id)

MapPut(m, k, x) == [y \in DOMAIN m \cup {k} |-> IF y = k THEN x ELSE m[y]]
MapDelete(m, k) == [y \in DOMAIN m \ {k} |-> m[y]]

\* nextID.Add(1)
NextRequestIDNoAdd(n) == n
NextRequestID(n) == n + 1

\* the deferred delete(c.responses, id) of sendRequest
DeferredDeleteWrongKey(m, id) == MapDelete(m, Float64Val(id))
DeferredDelete(m, id) == MapDelete(m, KeyOf(id))

NoRet == [kind |-> "none", call |-> 0, err |-> "", msg |-> NoMsg]
\* ctx.Err()
CtxErr(k) == IF k = "canceled" THEN "context canceled"
             ELSE "context deadline exceeded"
RetCtx(id, k) == [kind |-> "error", call |-> id, err |-> CtxErr(k), msg |-> NoMsg]
RetRemote(id, m) ==
    [kind |-> "error", call |-> id, err |-> "server error: " \o m.error, msg |-> NoMsg]
RetWrite(id) ==
    [kind |-> "error", call |-> id, err |-> "error sending request", msg |-> NoMsg]
RetResponse(id, m) == [kind |-> "response", call |-> id, err |-> "", msg |-> m]

\* the process is gone once a goroutine has panicked
Alive == readerPc # "panicked"

InitClient ==
    /\ nextID = 0
    /\ responses = << >>
    /\ chans = [n \in {} |-> << >>]
    /\ handlers = {}
    /\ cliConn = "open"
    /\ sent = << >>
    /\ inbound = << >>
    /\ hostSent = 0
    /\ readerPc = "read"
    /\ readerMsg = NoMsg
    /\ readerCh = 0
    /\ spawned = {}
    /\ callPc = [g \in Callers |-> "idle"]
    /\ callId = [g \in Callers |-> 0]
    /\ callMethod = [g \in Callers |-> ""]
    /\ ctx = [g \in Callers |-> "active"]
    /\ ret = [g \in Callers |-> NoRet]
    /\ issued = << >>
    /\ initPc = [g \in Callers |-> "idle"]
    /\ initRet = [g \in Callers |-> [kind |-> "none", err |-> ""]]

\* sendRequest returns: its locals (id, method, ctx) are gone
Return(g) ==
    /\ callPc' = [callPc EXCEPT ![g] = "idle"]
    /\ callId' = [callId EXCEPT ![g] = 0]
    /\ callMethod' = [callMethod EXCEPT ![g] = ""]
    /\ ctx' = [ctx EXCEPT ![g] = "active"]

\* sendRequest, lines 172-173: allocate the id and make the channel; the
\* entry is not in c.responses yet
sendRequest_Alloc(g, method) ==
    /\ Alive
    /\ callPc[g] = "idle"
    /\ nextID < MaxCalls
    /\ LET id == NextRequestID(nextID) IN
        /\ nextID' = id
        /\ chans' = MapPut(chans, id, << >>)
        /\ callId' = [callId EXCEPT ![g] = id]
        /\ issued' = Append(issued, id)
    /\ callPc' = [callPc EXCEPT ![g] = "alloc"]
    /\ callMethod' = [callMethod EXCEPT ![g] = method]
    /\ ctx' = [ctx EXCEPT ![g] = "active"]
    /\ UNCHANGED <<responses, handlers, cliConn, sent, inbound, hostSent,
                   readerPc, readerMsg, readerCh, spawned, ret>>
    /\ UNCHANGED <<initPc, initRet>>
    /\ UNCHANGED <<serverVars, libVars, raceVars>>

\* sendRequest, lines 175-183: store the channel under the id, inside c.mu,
\* and defer the delete
sendRequest_Register(g) ==
    /\ Alive
    /\ callPc[g] = "alloc"
    /\ responses' = MapPut(responses, KeyOf(callId[g]), callId[g])
    /\ callPc' = [callPc EXCEPT ![g] = "write"]
    /\ UNCHANGED <<nextID, chans, handlers, cliConn, sent, inbound, hostSent,
                   readerPc, readerMsg, readerCh, spawned, callId, callMethod,
                   ctx, ret, issued>>
    /\ UNCHANGED <<initPc, initRet>>
    /\ UNCHANGED <<serverVars, libVars, raceVars>>

\* sendRequest, lines 185-194: write the request; a failed write returns
\* (the deferred delete runs)
sendRequest_Write(g) ==
    /\ Alive
    /\ callPc[g] = "write"
    /\ IF cliConn = "open"
       THEN /\ sent' = Append(sent, [id |-> EncodeID(Int64Val(callId[g])),
                                     method |-> callMethod[g]])
            /\ callPc' = [callPc EXCEPT ![g] = "select"]
            /\ UNCHANGED <<responses, ret, callId, callMethod, ctx>>
       ELSE /\ responses' = DeferredDelete(responses, callId[g])
            /\ ret' = [ret EXCEPT ![g] = RetWrite(callId[g])]
            /\ Return(g)
            /\ UNCHANGED sent
    /\ UNCHANGED <<nextID, chans, handlers, cliConn, inbound, hostSent,
                   readerPc, readerMsg, readerCh, spawned, issued>>
    /\ UNCHANGED <<initPc, initRet>>
    /\ UNCHANGED <<serverVars, libVars, raceVars>>

\* the cases of the select at line 196 that are ready
ReadyCasesNoCtx(g) ==
    IF chans[callId[g]] # << >> THEN {"recv"} ELSE {}
ReadyCases(g) ==
    (IF ctx[g] # "active" THEN {"ctx"} ELSE {})
    \cup (IF chans[callId[g]] # << >> THEN {"recv"} ELSE {})

\* sendRequest, lines 196-204 and the deferred delete: the select picks one
\* of its ready cases
sendRequest_Select(g) ==
    /\ Alive
    /\ callPc[g] = "select"
    /\ \E c \in ReadyCases(g) :
        IF c = "ctx"
        THEN /\ ret' = [ret EXCEPT ![g] = RetCtx(callId[g], ctx[g])]
             /\ UNCHANGED chans
        ELSE LET m == Head(chans[callId[g]]) IN
             /\ chans' = [chans EXCEPT ![callId[g]] = Tail(@)]
             /\ ret' = [ret EXCEPT ![g] =
                          IF m.error # "none" THEN RetRemote(callId[g], m)
                          ELSE RetResponse(callId[g], m)]
    /\ responses' = DeferredDelete(responses, callId[g])
    /\ Return(g)
    /\ UNCHANGED <<nextID, handlers, cliConn, sent, inbound, hostSent,
                   readerPc, readerMsg, readerCh, spawned, issued>>
    /\ UNCHANGED <<initPc, initRet>>
    /\ UNCHANGED <<serverVars, libVars, raceVars>>

\* the caller cancels the context it passed, or its deadline passes
CtxDone(g, k) ==
    /\ Alive
    /\ callPc[g] # "idle"
    /\ ctx[g] = "active"
    /\ ctx' = [ctx EXCEPT ![g] = k]
    /\ UNCHANGED <<nextID, responses, chans, handlers, cliConn, sent, inbound,
                   hostSent, readerPc, readerMsg, readerCh, spawned, callPc,
                   callId, callMethod, ret, issued>>
    /\ UNCHANGED <<initPc, initRet>>
    /\ UNCHANGED <<serverVars, libVars, raceVars>>

\* Client.Close (a lost transport has the same effect on reads and writes);
\* the variant fails the outstanding requests
CloseFailsPending ==
    /\ Alive
    /\ cliConn = "open"
    /\ cliConn' = "closed"
    /\ chans' = [n \in DOMAIN chans |->
                    IF KeyOf(n) \in DOMAIN responses /\ chans[n] = << >>
                    THEN <<[id |-> NumID(n), method |-> "", error |-> "closed", result |-> ""]>>
                    ELSE chans[n]]
    /\ UNCHANGED <<nextID, responses, handlers, sent, inbound, hostSent,
                   readerPc, readerMsg, readerCh, spawned, callPc, callId,
                   callMethod, ctx, ret, issued>>
    /\ UNCHANGED <<initPc, initRet>>
    /\ UNCHANGED <<serverVars, libVars, raceVars>>
Close ==
    /\ Alive
    /\ cliConn = "open"
    /\ cliConn' = "closed"
    /\ UNCHANGED <<nextID, responses, chans, handlers, sent, inbound, hostSent,
                   readerPc, readerMsg, readerCh, spawned, callPc, callId,
                   callMethod, ctx, ret, issued>>
    /\ UNCHANGED <<initPc, initRet>>
    /\ UNCHANGED <<serverVars, libVars, raceVars>>

\* Client.RegisterNotificationHandler
RegisterNotificationHandler ==
    /\ Alive
    /\ Notification \notin handlers
    /\ handlers' = handlers \cup {Notification}
    /\ UNCHANGED <<nextID, responses, chans, cliConn, sent, inbound, hostSent,
                   readerPc, readerMsg, readerCh, spawned, callPc, callId,
                   callMethod, ctx, ret, issued>>
    /\ UNCHANGED <<initPc, initRet>>
    /\ UNCHANGED <<serverVars, libVars, raceVars>>

\* the host writes a message to the connection
HostSend(m) ==
    /\ Alive
    /\ cliConn = "open"
    /\ hostSent < MaxIn
    /\ hostSent' = hostSent + 1
    /\ inbound' = Append(inbound, m)
    /\ UNCHANGED <<nextID, responses, chans, handlers, cliConn, sent,
                   readerPc, readerMsg, readerCh, spawned, callPc, callId,
                   callMethod, ctx, ret, issued>>
    /\ UNCHANGED <<initPc, initRet>>
    /\ UNCHANGED <<serverVars, libVars, raceVars>>

\* the position of the message at the head of inbound among those sent
HeadIndex == hostSent - Len(inbound) + 1

\* the reader is inside its read of c.handlers (line 151)
Looking ==
    /\ readerPc = "read"
    /\ inbound # << >>
    /\ lookup = HeadIndex

\* handleMessages, line 162: the key of the lookup c.responses[msg.ID]; the
\* variant takes the entry of whichever call waits
ReaderKeyAnyWaiter(m) ==
    IF DOMAIN responses # {} THEN CHOOSE k \in DOMAIN responses : TRUE
    ELSE DecodeID(m.id)
ReaderKey(m) == DecodeID(m.id)

\* handleMessages, one step of the loop: a blocked send into the channel
\* completes, or ReadJSON fails and the loop ends, or one message is read
\* and dispatched; the variant has no notification branch
handleMessagesCorrelatesAll ==
    /\ readerPc \in {"read", "send"}
    /\ IF readerPc = "send"
       THEN /\ Len(chans[readerCh]) < ChanCap
            /\ chans' = [chans EXCEPT ![readerCh] = Append(@, readerMsg)]
            /\ readerPc' = "read"
            /\ readerMsg' = NoMsg
            /\ readerCh' = 0
            /\ UNCHANGED <<inbound, spawned>>
       ELSE \/ /\ cliConn = "closed"
               /\ ~Looking
               /\ readerPc' = "stopped"
               /\ UNCHANGED <<inbound, chans, readerMsg, readerCh, spawned>>
            \/ /\ inbound # << >>
               /\ inbound' = Tail(inbound)
               /\ LET m == Head(inbound)
                      key == ReaderKey(m) IN
                  IF m.method = Undecodable
                  THEN /\ readerPc' = "stopped"
                       /\ UNCHANGED <<chans, readerMsg, readerCh, spawned>>
                  ELSE IF ~Hashable(key)
                  THEN /\ readerPc' = "panicked"
                       /\ UNCHANGED <<chans, readerMsg, readerCh, spawned>>
                  ELSE IF key \in DOMAIN responses
                  THEN LET ch == responses[key] IN
                       IF Len(chans[ch]) < ChanCap
                       THEN /\ chans' = [chans EXCEPT ![ch] = Append(@, m)]
                            /\ UNCHANGED <<readerPc, readerMsg, readerCh, spawned>>
                       ELSE /\ readerPc' = "send"
                            /\ readerMsg' = m
                            /\ readerCh' = ch
                            /\ UNCHANGED <<chans, spawned>>
                  ELSE UNCHANGED <<chans, readerPc, readerMsg, readerCh, spawned>>
    /\ UNCHANGED <<nextID, responses, handlers, cliConn, sent, hostSent,
                   callPc, callId, callMethod, ctx, ret, issued>>
    /\ UNCHANGED <<initPc, initRet>>
    /\ UNCHANGED <<serverVars, libVars, raceVars>>
handleMessages ==
    /\ readerPc \in {"read", "send"}
    /\ IF readerPc = "send"
       THEN /\ Len(chans[readerCh]) < ChanCap
            /\ chans' = [chans EXCEPT ![readerCh] = Append(@, readerMsg)]
            /\ readerPc' = "read"
            /\ readerMsg' = NoMsg
            /\ readerCh' = 0
            /\ UNCHANGED <<inbound, spawned>>
       ELSE \/ /\ cliConn = "closed"
               /\ ~Looking
               /\ readerPc' = "stopped"
               /\ UNCHANGED <<inbound, chans, readerMsg, readerCh, spawned>>
            \/ /\ inbound # << >>
               /\ inbound' = Tail(inbound)
               /\ LET m == Head(inbound)
                      key == ReaderKey(m) IN
                  IF m.method = Undecodable
                  THEN /\ readerPc' = "stopped"
                       /\ UNCHANGED <<chans, readerMsg, readerCh, spawned>>
                  ELSE IF m.method = Notification
                  THEN /\ spawned' = IF Notification \in handlers
                                     THEN spawned \cup {m} ELSE spawned
                       /\ UNCHANGED <<chans, readerPc, readerMsg, readerCh>>
                  ELSE IF ~Hashable(key)
                  THEN /\ readerPc' = "panicked"
                       /\ UNCHANGED <<chans, readerMsg, readerCh, spawned>>
                  ELSE IF key \in DOMAIN responses
                  THEN LET ch == responses[key] IN
                       IF Len(chans[ch]) < ChanCap
                       THEN /\ chans' = [chans EXCEPT ![ch] = Append(@, m)]
                            /\ UNCHANGED <<readerPc, readerMsg, readerCh, spawned>>
                       ELSE /\ readerPc' = "send"
                            /\ readerMsg' = m
                            /\ readerCh' = ch
                            /\ UNCHANGED <<chans, spawned>>
                  ELSE UNCHANGED <<chans, readerPc, readerMsg, readerCh, spawned>>
    /\ UNCHANGED <<nextID, responses, handlers, cliConn, sent, hostSent,
                   callPc, callId, callMethod, ctx, ret, issued>>
    /\ UNCHANGED <<initPc, initRet>>
    /\ UNCHANGED <<serverVars, libVars, raceVars>>

\* what Initialize returned: nothing yet, the capabilities, or an error
NoInitRet == [kind |-> "none", err |-> ""]
InitRetCaps == [kind |-> "capabilities", err |-> ""]
InitRetErr(e) == [kind |-> "error", err |-> e]

\* sonic.Unmarshal(response.Result, &result) into the capabilities struct:
\* a JSON object decodes, a JSON number and an absent result do not
UnmarshalCapabilities(result) == result = "{}"

\* the methods the peer sends as notifications
NotifyMethods == {"initialized", Notification}

\* sendNotification: one WriteJSON of a message without an id; ok is whether
\* the write succeeded
sendNotificationAsRequest(method, ok) ==
    /\ ok = (cliConn = "open")
    /\ nextID' = NextRequestID(nextID)
    /\ responses' = MapPut(responses, KeyOf(nextID'), nextID')
    /\ chans' = MapPut(chans, nextID', << >>)
    /\ sent' = IF ok THEN Append(sent, [id |-> NumID(nextID'), method |-> method])
               ELSE sent
sendNotification(method, ok) ==
    /\ ok = (cliConn = "open")
    /\ sent' = IF ok THEN Append(sent, [id |-> AbsentID, method |-> method])
               ELSE sent
    /\ UNCHANGED <<nextID, responses, chans>>

\* a call of sendNotification by itself
SendNotification(method) ==
    /\ Alive
    /\ Len(sent) < MaxCalls
    /\ \E ok \in BOOLEAN : sendNotification(method, ok)
    /\ UNCHANGED <<handlers, cliConn, inbound, hostSent, readerPc, readerMsg,
                   readerCh, spawned, callPc, callId, callMethod, ctx, ret,
                   issued, initPc, initRet>>
    /\ UNCHANGED <<serverVars, libVars, raceVars>>

\* Initialize, lines 64-75: marshal the params and call sendRequest
Initialize_Call(g) ==
    /\ Alive
    /\ initPc[g] = "idle"
    /\ callPc[g] = "idle"
    /\ nextID < MaxCalls
    /\ initPc' = [initPc EXCEPT ![g] = "request"]
    /\ initRet' = [initRet EXCEPT ![g] = NoInitRet]
    /\ ret' = [ret EXCEPT ![g] = NoRet]
    /\ UNCHANGED <<nextID, responses, chans, handlers, cliConn, sent, inbound,
                   hostSent, readerPc, readerMsg, readerCh, spawned, callPc,
                   callId, callMethod, ctx, issued>>
    /\ UNCHANGED <<serverVars, libVars, raceVars>>

\* the sendRequest call of Initialize, line 75: its first step
Initialize_Request(g) ==
    /\ initPc[g] = "request"
    /\ ret[g] = NoRet
    /\ sendRequest_Alloc(g, "initialize")

\* Initialize, lines 76-92: sendRequest has returned; an error is wrapped and
\* returned, the result is decoded, the notification is sent
Initialize_ReturnNotifiesFirst(g) ==
    /\ Alive
    /\ initPc[g] = "request"
    /\ callPc[g] = "idle"
    /\ ret[g] # NoRet
    /\ initPc' = [initPc EXCEPT ![g] = "idle"]
    /\ \E ok \in BOOLEAN :
          /\ sendNotification("initialized", ok)
          /\ initRet' = [initRet EXCEPT ![g] =
               IF ret[g].kind = "error"
               THEN InitRetErr("initialize request failed: " \o ret[g].err)
               ELSE IF ~UnmarshalCapabilities(ret[g].msg.result)
               THEN InitRetErr("error unmarshaling server capabilities")
               ELSE IF ok THEN InitRetCaps
               ELSE InitRetErr("error sending initialized notification")]
    /\ UNCHANGED <<handlers, cliConn, inbound, hostSent, readerPc, readerMsg,
                   readerCh, spawned, callPc, callId, callMethod, ctx, ret,
                   issued>>
    /\ UNCHANGED <<serverVars, libVars, raceVars>>
Initialize_Return(g) ==
    /\ Alive
    /\ initPc[g] = "request"
    /\ callPc[g] = "idle"
    /\ ret[g] # NoRet
    /\ initPc' = [initPc EXCEPT ![g] = "idle"]
    /\ IF ret[g].kind = "error"
       THEN /\ initRet' = [initRet EXCEPT ![g] =
                 InitRetErr("initialize request failed: " \o ret[g].err)]
            /\ UNCHANGED <<nextID, responses, chans, sent>>
       ELSE IF ~UnmarshalCapabilities(ret[g].msg.result)
       THEN /\ initRet' = [initRet EXCEPT ![g] =
                 InitRetErr("error unmarshaling server capabilities")]
            /\ UNCHANGED <<nextID, responses, chans, sent>>
       ELSE \E ok \in BOOLEAN :
            /\ sendNotification("initialized", ok)
            /\ initRet' = [initRet EXCEPT ![g] =
                 IF ok THEN InitRetCaps
                 ELSE InitRetErr("error sending initialized notification")]
    /\ UNCHANGED <<handlers, cliConn, inbound, hostSent, readerPc, readerMsg,
                   readerCh, spawned, callPc, callId, callMethod, ctx, ret,
                   issued>>
    /\ UNCHANGED <<serverVars, libVars, raceVars>>

(***************************************************************************)
(* Host session (Server).                                                  *)
(***************************************************************************)
\* bounds of the host model
\* Register* calls the application makes in a run
MaxRegs == 2
\* servers an MCPModelMixin starts in a run
MaxStarts == 2
\* edges added to a KnowledgeGraph in a run
MaxEdges == 3

\* connections accepted by the Server
Conns == {"A", "B"}

\* the nine methods NewServer puts in the dispatch table
ServerHandlersWithControl ==
    {"initialize", "initialized", "tools/list", "tools/call", "resources/list",
     "resources/read", "resources/write", "prompts/list", "prompts/render",
     "$/notification", "$/cancelRequest"}
ServerHandlers == {"initialize", "initialized", "tools/list", "tools/call",
                   "resources/list", "resources/read", "resources/write",
                   "prompts/list", "prompts/render"}

\* strings that take part in template rendering are sequences of characters
NoVars == [k \in {} |-> << >>]
TplHello == <<"H", "i", " ", "{", "{", "n", "}", "}">>
TplBye == <<"{", "{", "n", "}", "}", "{", "{", "m", "}", "}">>

\* params of an inbound message, as the handlers decode them; valid = FALSE
\* is a params member that is absent or does not decode into the handler's
\* struct
Params(valid, key, content, caps, vs) ==
    [valid |-> valid, key |-> key, content |-> content, caps |-> caps, vars |-> vs]
NoParams == Params(FALSE, "", "", {}, NoVars)
KeyParams(k) == Params(TRUE, k, "", {}, NoVars)

SrvBodies ==
    {[method |-> "initialize", params |-> p] :
        p \in {NoParams, Params(TRUE, "r1", "", {"tools.call"}, NoVars),
               Params(TRUE, "r2", "", {"resources.read", "prompts.list"}, NoVars)}}
    \cup {[method |-> mt, params |-> NoParams] :
        mt \in {"initialized", "tools/list", "resources/list", "prompts/list",
                "$/notification", "$/cancelRequest", "bogus"}}
    \cup {[method |-> "tools/call", params |-> p] :
        p \in {NoParams, KeyParams("t1"), KeyParams("t2")}}
    \cup {[method |-> "resources/read", params |-> p] :
        p \in {NoParams, KeyParams("u1"), KeyParams("u2")}}
    \cup {[method |-> "resources/write", params |-> p] :
        p \in {NoParams, Params(TRUE, "u1", "m1", {}, NoVars),
               Params(TRUE, "u1", "m2", {}, NoVars),
               Params(TRUE, "u2", "m1", {}, NoVars)}}
    \cup {[method |-> "prompts/render", params |-> p] :
        p \in {NoParams, KeyParams("p1"), KeyParams("p2"),
               Params(TRUE, "p1", "", {}, [k \in {<<"n">>} |-> <<"W">>]),
               Params(TRUE, "p1", "", {},
                      [k \in {<<"n">>, <<"m">>} |->
                          IF k = <<"n">> THEN <<"{", "{", "m", "}", "}">> ELSE <<"X">>])}}
\* every body as a request with an id; without an id the notifications, an
\* unknown method, and one request that succeeds and one that fails
SrvMsgs == {[id |-> NumID(1), method |-> b.method, params |-> b.params] : b \in SrvBodies}
           \cup {[id |-> AbsentID, method |-> b.method, params |-> b.params] :
                    b \in {x \in SrvBodies :
                              \/ x.method \in {"initialized", "$/notification", "tools/list"}
                              \/ x.method = "tools/call" /\ x.params.valid}}
NoSrvMsg == [id |-> AbsentID, method |-> "<nil>", params |-> NoParams]

\* registry entries the application registers
ToolEntries == {[name |-> "t1", description |-> "d1"],
                [name |-> "t1", description |-> "d2"],
                [name |-> "t2", description |-> "d1"]}
ResourceEntries == [uri : {"u1"}, type : {"file"}, name : {"n1"},
                    description : {"d1"}, metadata : {"m0"}]
PromptEntries == [name : {"p1"}, description : {"d1"}, template : {TplHello, TplBye}]

ZeroClientState == [Capabilities |-> {}, RootURI |-> "", Initialized |-> FALSE]

\* a response message; code 0 and message "" stand for a nil Error
NoResult == [tag |-> "none", items |-> {}, text |-> << >>]
Response(id, result) == [id |-> id, code |-> 0, message |-> "", result |-> result]
ErrorResponse(id, code, message) ==
    [id |-> id, code |-> code, message |-> message, result |-> NoResult]
NoResp == [id |-> AbsentID, code |-> 0, message |-> "<nil>", result |-> NoResult]
NoLast == [conn |-> "", msg |-> NoSrvMsg, written |-> << >>]
\* the answer an iteration is about to write: the message it is for, the
\* response, and whether sendError writes it
Out(m, resp, viaSendError) == [msg |-> m, resp |-> resp, err |-> viaSendError]
NoOut == Out(NoSrvMsg, NoResp, FALSE)

\* the id the host puts in its answer: msg.ID as decoded, encoded again
EchoNoID(m) == AbsentID
EchoInventsID(m) == IF m.id = AbsentID THEN NumID(0) ELSE EncodeID(DecodeID(m.id))
EchoID(m) == EncodeID(DecodeID(m.id))

\* the fixed capabilities document of handleInitialize
ServerCapabilitiesDoc ==
    [tag |-> "capabilities",
     items |-> {[category |-> "tools", supported |-> TRUE, types |-> <<"function">>],
                [category |-> "resources", supported |-> TRUE, types |-> <<"file", "memory">>],
                [category |-> "prompts", supported |-> TRUE, types |-> <<"text", "chat">>]},
     text |-> << >>]
StatusSuccess == [tag |-> "status", items |-> {}, text |-> <<"s", "u", "c", "c", "e", "s", "s">>]

\* strings.ReplaceAll(s, old, new) for a non-empty old
RECURSIVE ReplaceAll(_, _, _)
ReplaceAll(s, old, new) ==
    IF Len(s) < Len(old) THEN s
    ELSE IF SubSeq(s, 1, Len(old)) = old
    THEN new \o ReplaceAll(SubSeq(s, Len(old) + 1, Len(s)), old, new)
    ELSE <<Head(s)>> \o ReplaceAll(Tail(s), old, new)

\* the loop of handlePromptsRender over params.Variables, in the order ord
RECURSIVE RenderIn(_, _, _)
RenderIn(tpl, vs, ord) ==
    IF ord = << >> THEN tpl
    ELSE RenderIn(ReplaceAll(tpl, <<"{", "{">> \o Head(ord) \o <<"}", "}">>, vs[Head(ord)]),
                  vs, Tail(ord))

\* the orders in which a Go map range may visit the keys of vs
Orders(S) ==
    {o \in [1..Cardinality(S) -> S] : \A i, j \in 1..Cardinality(S) : i # j => o[i] # o[j]}

\* the state a handler leaves, its response and its error
Outcome(resp, err, st) == [resp |-> resp, err |-> err, st |-> st]
SrvState == [tools |-> tools, resources |-> resources, prompts |-> prompts,
             clients |-> clients, mu |-> mu]

handleInitialize(c, m) ==
    IF ~m.params.valid
    THEN Outcome(NoResp, "invalid initialize params", SrvState)
    ELSE Outcome(Response(EchoID(m), ServerCapabilitiesDoc), "",
                 [SrvState EXCEPT !.clients =
                     IF c \in DOMAIN clients
                     THEN [clients EXCEPT ![c].Capabilities = m.params.caps,
                                          ![c].RootURI = m.params.key]
                     ELSE clients])

\* handleInitialized; the variant answers the notification
handleInitializedAnswers(c, m) ==
    Outcome(Response(EchoID(m), NoResult), "",
            [SrvState EXCEPT !.clients =
                IF c \in DOMAIN clients
                THEN [clients EXCEPT ![c].Initialized = TRUE]
                ELSE clients])
handleInitialized(c, m) ==
    Outcome(NoResp, "",
            [SrvState EXCEPT !.clients =
                IF c \in DOMAIN clients
                THEN [clients EXCEPT ![c].Initialized = TRUE]
                ELSE clients])

Values(f) == {f[k] : k \in DOMAIN f}

handleToolsList(c, m) ==
    Outcome(Response(EchoID(m), [tag |-> "tools", items |-> Values(tools), text |-> << >>]),
            "", SrvState)

\* handleToolsCall; the variant acknowledges a call without the lookup
handleToolsCallAnyName(c, m) ==
    IF ~m.params.valid
    THEN Outcome(NoResp, "invalid tool call params", SrvState)
    ELSE Outcome(Response(EchoID(m), StatusSuccess), "", SrvState)
handleToolsCall(c, m) ==
    IF ~m.params.valid
    THEN Outcome(NoResp, "invalid tool call params", SrvState)
    ELSE IF m.params.key \notin DOMAIN tools
    THEN Outcome(NoResp, "tool " \o m.params.key \o " not found", SrvState)
    ELSE Outcome(Response(EchoID(m), StatusSuccess), "", SrvState)

handleResourcesList(c, m) ==
    Outcome(Response(EchoID(m),
                     [tag |-> "resources", items |-> Values(resources), text |-> << >>]),
            "", SrvState)

\* handleResourcesRead; the variant answers without the Metadata
handleResourcesReadNoMetadata(c, m) ==
    IF ~m.params.valid
    THEN Outcome(NoResp, "invalid resource read params", SrvState)
    ELSE IF m.params.key \notin DOMAIN resources
    THEN Outcome(NoResp, "resource " \o m.params.key \o " not found", SrvState)
    ELSE Outcome(Response(EchoID(m),
                          [tag |-> "resource",
                           items |-> {[resources[m.params.key] EXCEPT !.metadata = ""]},
                           text |-> << >>]),
                 "", SrvState)
handleResourcesRead(c, m) ==
    IF ~m.params.valid
    THEN Outcome(NoResp, "invalid resource read params", SrvState)
    ELSE IF m.params.key \notin DOMAIN resources
    THEN Outcome(NoResp, "resource " \o m.params.key \o " not found", SrvState)
    ELSE Outcome(Response(EchoID(m),
                          [tag |-> "resource", items |-> {resources[m.params.key]},
                           text |-> << >>]),
                 "", SrvState)

\* handleResourcesWrite; the variant stores a fresh record instead of the
\* updated copy
handleResourcesWriteFreshRecord(c, m) ==
    IF ~m.params.valid
    THEN Outcome(NoResp, "invalid resource write params", SrvState)
    ELSE IF m.params.key \notin DOMAIN resources
    THEN Outcome(NoResp, "resource " \o m.params.key \o " not found",
                 [SrvState EXCEPT !.mu = "locked"])
    ELSE Outcome(Response(EchoID(m), StatusSuccess), "",
                 [SrvState EXCEPT !.resources =
                     [resources EXCEPT ![m.params.key] =
                         [uri |-> m.params.key, type |-> "", name |-> "",
                          description |-> "", metadata |-> m.params.content]]])
\* the not-found branch returns at line 342 with s.mu still locked
handleResourcesWrite(c, m) ==
    IF ~m.params.valid
    THEN Outcome(NoResp, "invalid resource write params", SrvState)
    ELSE IF m.params.key \notin DOMAIN resources
    THEN Outcome(NoResp, "resource " \o m.params.key \o " not found",
                 [SrvState EXCEPT !.mu = "locked"])
    ELSE Outcome(Response(EchoID(m), StatusSuccess), "",
                 [SrvState EXCEPT !.resources =
                     [resources EXCEPT ![m.params.key].metadata = m.params.content]])

handlePromptsList(c, m) ==
    Outcome(Response(EchoID(m),
                     [tag |-> "prompts", items |-> Values(prompts), text |-> << >>]),
            "", SrvState)

handlePromptsRender(c, m, ord) ==
    IF ~m.params.valid
    THEN Outcome(NoResp, "invalid prompt render params", SrvState)
    ELSE IF m.params.key \notin DOMAIN prompts
    THEN Outcome(NoResp, "prompt " \o m.params.key \o " not found", SrvState)
    ELSE Outcome(Response(EchoID(m),
                          [tag |-> "rendered", items |-> {},
                           text |-> RenderIn(prompts[m.params.key].template,
                                             m.params.vars, ord)]),
                 "", SrvState)

\* s.handlers[msg.Method](ctx, &msg)
Handler(c, m, ord) ==
    CASE m.method = "initialize" -> handleInitialize(c, m)
      [] m.method = "initialized" -> handleInitialized(c, m)
      [] m.method = "tools/list" -> handleToolsList(c, m)
      [] m.method = "tools/call" -> handleToolsCall(c, m)
      [] m.method = "resources/list" -> handleResourcesList(c, m)
      [] m.method = "resources/read" -> handleResourcesRead(c, m)
      [] m.method = "resources/write" -> handleResourcesWrite(c, m)
      [] m.method = "prompts/list" -> handlePromptsList(c, m)
      [] OTHER -> handlePromptsRender(c, m, ord)

\* the handler of m takes s.mu (the decoding of the params comes first and
\* its failure returns before the lock is taken)
TakesLock(m) ==
    /\ m.method \in ServerHandlers
    /\ \/ m.method \in {"initialized", "tools/list", "resources/list", "prompts/list"}
       \/ m.params.valid

\* the handler of m takes s.mu with Lock(), not with RLock()
WritesLock(m) == m.method \in {"initialize", "initialized", "resources/write"}

\* the connections whose list handler is inside its RLock section
Copying == {c \in Conns : connPc[c] = "copy"}

\* a Lock() call is waiting for s.mu
WriterWaiting ==
    \/ appPc = "blocked"
    \/ \E d \in Conns : connPc[d] = "handle" /\ WritesLock(cur[d])

\* s.mu.Lock() has to wait: s.mu is held by a writer or by readers; the
\* variant is a lock whose writers do not wait for its readers
LockWaitsIgnoresReaders == mu = "locked"
LockWaits == mu = "locked" \/ Copying # {}

\* s.mu.RLock() has to wait: s.mu is held by a writer, or a writer waits for
\* it (sync.RWMutex lets no new reader in ahead of a waiting writer)
RLockWaits == mu = "locked" \/ WriterWaiting

\* the handler of m has to wait for s.mu
HandlerWaits(m) ==
    /\ TakesLock(m)
    /\ IF WritesLock(m) THEN LockWaits ELSE RLockWaits

\* one WriteJSON call: the message and whether the write succeeded
Written(msg, ok) == [msg |-> msg, ok |-> ok]

\* sendError: the error response it writes
sendErrorNoCode(m, code, message) == ErrorResponse(EchoID(m), 0, message)
sendError(m, code, message) == ErrorResponse(EchoID(m), code, message)

\* a Register* call and its argument
NoOp == [kind |-> "", key |-> "", entry |-> {}]
Op(kind, key, e) == [kind |-> kind, key |-> key, entry |-> {e}]

InitServer ==
    /\ tools = [k \in {} |-> 0]
    /\ resources = [k \in {} |-> 0]
    /\ prompts = [k \in {} |-> 0]
    /\ clients = [k \in {} |-> 0]
    /\ mu = "unlocked"
    /\ connPc = [c \in Conns |-> "idle"]
    /\ transport = [c \in Conns |-> "up"]
    /\ cur = [c \in Conns |-> NoSrvMsg]
    /\ last = NoLast
    /\ out = [c \in Conns |-> NoOut]
    /\ appPc = "idle"
    /\ appOp = NoOp
    /\ appRet = ""
    /\ nRegs = 0

\* Register*: the check for an existing key
RegisterOverwrites(reg, key) == FALSE
RegisterExists(reg, key) == key \in DOMAIN reg

\* the application calls Register* now, or its call that waits for s.mu goes on
Calls(op) == IF appPc = "idle" THEN nRegs < MaxRegs ELSE appOp = op

\* RegisterTool; while s.mu is held the call waits at line 82
RegisterTool(t) ==
    /\ Calls(Op("tool", t.name, t))
    /\ nRegs' = IF appPc = "idle" THEN nRegs + 1 ELSE nRegs
    /\ IF LockWaits
       THEN /\ appPc' = "blocked"
            /\ appOp' = Op("tool", t.name, t)
            /\ UNCHANGED <<tools, appRet>>
       ELSE /\ appPc' = "idle"
            /\ appOp' = NoOp
            /\ IF RegisterExists(tools, t.name)
               THEN /\ appRet' = "tool " \o t.name \o " already registered"
                    /\ UNCHANGED tools
               ELSE /\ tools' = MapPut(tools, t.name, t)
                    /\ appRet' = "<nil>"
    /\ UNCHANGED <<resources, prompts, clients, mu, connPc, transport, cur, last,
                   out>>
    /\ UNCHANGED <<clientVars, libVars, raceVars>>

RegisterResource(r) ==
    /\ Calls(Op("resource", r.uri, r))
    /\ nRegs' = IF appPc = "idle" THEN nRegs + 1 ELSE nRegs
    /\ IF LockWaits
       THEN /\ appPc' = "blocked"
            /\ appOp' = Op("resource", r.uri, r)
            /\ UNCHANGED <<resources, appRet>>
       ELSE /\ appPc' = "idle"
            /\ appOp' = NoOp
            /\ IF RegisterExists(resources, r.uri)
               THEN /\ appRet' = "resource " \o r.uri \o " already registered"
                    /\ UNCHANGED resources
               ELSE /\ resources' = MapPut(resources, r.uri, r)
                    /\ appRet' = "<nil>"
    /\ UNCHANGED <<tools, prompts, clients, mu, connPc, transport, cur, last,
                   out>>
    /\ UNCHANGED <<clientVars, libVars, raceVars>>

RegisterPrompt(p) ==
    /\ Calls(Op("prompt", p.name, p))
    /\ nRegs' = IF appPc = "idle" THEN nRegs + 1 ELSE nRegs
    /\ IF LockWaits
       THEN /\ appPc' = "blocked"
            /\ appOp' = Op("prompt", p.name, p)
            /\ UNCHANGED <<prompts, appRet>>
       ELSE /\ appPc' = "idle"
            /\ appOp' = NoOp
            /\ IF RegisterExists(prompts, p.name)
               THEN /\ appRet' = "prompt " \o p.name \o " already registered"
                    /\ UNCHANGED prompts
               ELSE /\ prompts' = MapPut(prompts, p.name, p)
                    /\ appRet' = "<nil>"
    /\ UNCHANGED <<tools, resources, clients, mu, connPc, transport, cur, last,
                   out>>
    /\ UNCHANGED <<clientVars, libVars, raceVars>>

\* HandleConnection, lines 121-131: the ClientState is created under s.mu
HandleConnection_Start(c) ==
    /\ connPc[c] = "idle"
    /\ ~LockWaits
    /\ clients' = MapPut(clients, c, ZeroClientState)
    /\ connPc' = [connPc EXCEPT ![c] = "read"]
    /\ UNCHANGED <<tools, resources, prompts, mu, transport, cur, last, out,
                   appPc, appOp, appRet, nRegs>>
    /\ UNCHANGED <<clientVars, libVars, raceVars>>

\* conn.WriteJSON succeeds while the transport takes writes
WriteOK(c) == transport[c] = "up"

\* the message an iteration of the loop is for: the one ReadJSON returns at
\* the top of the loop, or the one whose handler has been waiting; the
\* variant reads the next message while a handler waits
ReadsAhead(c, m) == transport[c] # "down"
Reads(c, m) == IF connPc[c] = "handle" THEN m = cur[c] ELSE transport[c] # "down"

\* HandleConnection, lines 133-151: one iteration of the loop, for the
\* message m it reads, up to the end of its handler. Between ReadJSON and
\* the write an iteration touches the shared state inside one critical
\* section only; when its handler finds s.mu held, it waits in "handle" (with
\* the message in cur) and the same iteration goes on once s.mu is free. The
\* answer is built here and written by the next step of the iteration.
HandleConnection_Loop(c, m, ord) ==
    /\ connPc[c] \in {"read", "handle"}
    /\ Reads(c, m)
    /\ last' = [conn |-> c, msg |-> m, written |-> << >>]
    /\ IF m.method \notin ServerHandlers
       THEN /\ out' = [out EXCEPT ![c] =
                          Out(m, sendError(m, -32601, "method not found"), TRUE)]
            /\ connPc' = [connPc EXCEPT ![c] = "write"]
            /\ UNCHANGED <<tools, resources, prompts, clients, mu, cur>>
       ELSE IF HandlerWaits(m)
       THEN /\ connPc[c] = "read"
            /\ connPc' = [connPc EXCEPT ![c] = "handle"]
            /\ cur' = [cur EXCEPT ![c] = m]
            /\ UNCHANGED <<tools, resources, prompts, clients, mu, out>>
       ELSE LET o == Handler(c, m, ord) IN
            /\ tools' = o.st.tools
            /\ resources' = o.st.resources
            /\ prompts' = o.st.prompts
            /\ clients' = o.st.clients
            /\ mu' = o.st.mu
            /\ cur' = [cur EXCEPT ![c] = NoSrvMsg]
            /\ IF o.err # ""
               THEN /\ out' = [out EXCEPT ![c] =
                                  Out(m, sendError(m, -32000, o.err), TRUE)]
                    /\ connPc' = [connPc EXCEPT ![c] = "write"]
               ELSE IF o.resp # NoResp
               THEN /\ out' = [out EXCEPT ![c] = Out(m, o.resp, FALSE)]
                    /\ connPc' = [connPc EXCEPT ![c] = "write"]
               ELSE /\ connPc' = [connPc EXCEPT ![c] = "read"]
                    /\ UNCHANGED out
    /\ UNCHANGED <<transport, appPc, appOp, appRet, nRegs>>
    /\ UNCHANGED <<clientVars, libVars, raceVars>>

\* the three list handlers, step by step
ListMethods == {"tools/list", "resources/list", "prompts/list"}
ListRegistry(m) ==
    CASE m.method = "tools/list" -> tools
      [] m.method = "resources/list" -> resources
      [] OTHER -> prompts
ListTag(m) ==
    CASE m.method = "tools/list" -> "tools"
      [] m.method = "resources/list" -> "resources"
      [] OTHER -> "prompts"

\* the keys of reg whose entry the range loop of a list handler has not
\* appended to its slice yet
RangeNext(reg, copied) == {k \in DOMAIN reg : reg[k] \notin copied}

\* a list handler, lines 231-232 (277-278, 354-355): the iteration of the
\* loop reads m and its handler takes s.mu.RLock() and makes its empty
\* slice, or waits for the lock; out holds the answer under construction
handleList_RLock(c, m) ==
    /\ connPc[c] \in {"read", "handle"}
    /\ Reads(c, m)
    /\ m.method \in ListMethods
    /\ last' = [conn |-> c, msg |-> m, written |-> << >>]
    /\ IF RLockWaits
       THEN /\ connPc[c] = "read"
            /\ connPc' = [connPc EXCEPT ![c] = "handle"]
            /\ cur' = [cur EXCEPT ![c] = m]
            /\ UNCHANGED out
       ELSE /\ connPc' = [connPc EXCEPT ![c] = "copy"]
            /\ cur' = [cur EXCEPT ![c] = NoSrvMsg]
            /\ out' = [out EXCEPT ![c] =
                          Out(m, Response(EchoID(m),
                                          [tag |-> ListTag(m), items |-> {},
                                           text |-> << >>]), FALSE)]
    /\ UNCHANGED <<tools, resources, prompts, clients, mu, transport, appPc,
                   appOp, appRet, nRegs>>
    /\ UNCHANGED <<clientVars, libVars, raceVars>>

\* a list handler, lines 233-235: the range loop appends a copy of one more
\* entry
handleList_Copy(c) ==
    /\ connPc[c] = "copy"
    /\ \E k \in RangeNext(ListRegistry(out[c].msg), out[c].resp.result.items) :
          out' = [out EXCEPT ![c].resp.result.items =
                     @ \cup {ListRegistry(out[c].msg)[k]}]
    /\ last' = [conn |-> c, msg |-> out[c].msg, written |-> << >>]
    /\ UNCHANGED <<tools, resources, prompts, clients, mu, connPc, transport,
                   cur, appPc, appOp, appRet, nRegs>>
    /\ UNCHANGED <<clientVars, libVars, raceVars>>

\* a list handler, lines 236-249: the range loop is over, s.mu.RUnlock(), and
\* the slice is marshalled into the response the handler returns
handleList_RUnlock(c) ==
    /\ connPc[c] = "copy"
    /\ RangeNext(ListRegistry(out[c].msg), out[c].resp.result.items) = {}
    /\ connPc' = [connPc EXCEPT ![c] = "write"]
    /\ last' = [conn |-> c, msg |-> out[c].msg, written |-> << >>]
    /\ UNCHANGED <<tools, resources, prompts, clients, mu, transport, cur, out,
                   appPc, appOp, appRet, nRegs>>
    /\ UNCHANGED <<clientVars, libVars, raceVars>>

\* HandleConnection, lines 154, 159 and 165-179: the conn.WriteJSON of the
\* answer, outside every lock; a failed write of a response ends the loop, a
\* failed write of sendError is logged and the loop goes on
HandleConnection_Write(c) ==
    /\ connPc[c] = "write"
    /\ LET wok == WriteOK(c) IN
       /\ last' = [conn |-> c, msg |-> out[c].msg,
                   written |-> <<Written(out[c].resp, wok)>>]
       /\ connPc' = [connPc EXCEPT ![c] =
                        IF wok \/ out[c].err THEN "read" ELSE "cleanup"]
    /\ out' = [out EXCEPT ![c] = NoOut]
    /\ UNCHANGED <<tools, resources, prompts, clients, mu, transport, cur,
                   appPc, appOp, appRet, nRegs>>
    /\ UNCHANGED <<clientVars, libVars, raceVars>>

\* ReadJSON fails: the loop ends
HandleConnection_ReadError(c) ==
    /\ connPc[c] = "read"
    /\ transport[c] = "down"
    /\ connPc' = [connPc EXCEPT ![c] = "cleanup"]
    /\ UNCHANGED <<tools, resources, prompts, clients, mu, transport, cur, last,
                   out, appPc, appOp, appRet, nRegs>>
    /\ UNCHANGED <<clientVars, libVars, raceVars>>

\* the deferred function of lines 126-130: delete(s.clients, conn) under s.mu
HandleConnection_Cleanup(c) ==
    /\ connPc[c] = "cleanup"
    /\ ~LockWaits
    /\ clients' = MapDelete(clients, c)
    /\ connPc' = [connPc EXCEPT ![c] = "closing"]
    /\ UNCHANGED <<tools, resources, prompts, mu, transport, cur, last, out,
                   appPc, appOp, appRet, nRegs>>
    /\ UNCHANGED <<clientVars, libVars, raceVars>>

\* the deferred conn.Close() of line 121, after which HandleConnection returns
HandleConnection_Return(c) ==
    /\ connPc[c] = "closing"
    /\ connPc' = [connPc EXCEPT ![c] = "closed"]
    /\ transport' = [transport EXCEPT ![c] = "down"]
    /\ UNCHANGED <<tools, resources, prompts, clients, mu, cur, last, out,
                   appPc, appOp, appRet, nRegs>>
    /\ UNCHANGED <<clientVars, libVars, raceVars>>

\* the transport of a connection fails: for writes only, or altogether
TransportFail(c, how) ==
    /\ connPc[c] \in {"read", "handle", "write"}
    /\ \/ transport[c] = "up"
       \/ transport[c] = "wdown" /\ how = "down"
    /\ transport' = [transport EXCEPT ![c] = how]
    /\ UNCHANGED <<tools, resources, prompts, clients, mu, connPc, cur, last,
                   out, appPc, appOp, appRet, nRegs>>
    /\ UNCHANGED <<clientVars, libVars, raceVars>>

\* the steps of the host session with the connections CS and the inbound
\* messages M
NextServerOn(CS, M) ==
    \/ \E t \in ToolEntries : RegisterTool(t)
    \/ \E r \in ResourceEntries : RegisterResource(r)
    \/ \E p \in PromptEntries : RegisterPrompt(p)
    \/ \E c \in CS : HandleConnection_Start(c)
    \/ \E c \in CS, m \in M :
          \E ord \in Orders(DOMAIN m.params.vars) : HandleConnection_Loop(c, m, ord)
    \/ \E c \in CS : HandleConnection_Write(c)
    \/ \E c \in CS : HandleConnection_ReadError(c)
    \/ \E c \in CS : HandleConnection_Cleanup(c)
    \/ \E c \in CS : HandleConnection_Return(c)
    \/ \E c \in CS, how \in {"wdown", "down"} : TransportFail(c, how)

NextClient ==
    \/ \E g \in Callers, method \in ReqMethods : sendRequest_Alloc(g, method)
    \/ \E g \in Callers : sendRequest_Register(g)
    \/ \E g \in Callers : sendRequest_Write(g)
    \/ \E g \in Callers : sendRequest_Select(g)
    \/ \E g \in Callers, k \in {"canceled", "deadline"} : CtxDone(g, k)
    \/ Close
    \/ RegisterNotificationHandler
    \/ \E m \in InMsgs : HostSend(m)
    \/ handleMessages

\* a nil pointer, and a pointer to x
NilPtr == << >>
Ref(x) == <<x>>

\* the *types.Config values passed to NewModel (Options is never read)
Configs == [Provider : {"", "groq", "ollama"}, ModelID : {"", "m1", "m2"},
            APIKey : {"", "k"}]
ConfigPtrs == {NilPtr} \cup {Ref(c) : c \in Configs}
\* the *types.Tool values passed to RegisterTool
ToolPtrs == {NilPtr} \cup {Ref(t) : t \in [Name : {"", "t1", "t2"},
                                            Description : {"d1", "d2"}]}

\* NewModel: the returned model and error
NewModelAnyProvider(config) ==
    IF config = NilPtr
    THEN [model |-> NilPtr, err |-> "config cannot be nil"]
    ELSE IF config[1].ModelID = ""
    THEN [model |-> NilPtr, err |-> "model ID is required"]
    ELSE [model |-> Ref([config |-> config[1], tools |-> << >>]), err |-> ""]
NewModel(config) ==
    IF config = NilPtr
    THEN [model |-> NilPtr, err |-> "config cannot be nil"]
    ELSE IF config[1].ModelID = ""
    THEN [model |-> NilPtr, err |-> "model ID is required"]
    ELSE IF config[1].Provider = ""
    THEN [model |-> NilPtr, err |-> "provider is required"]
    ELSE [model |-> Ref([config |-> config[1], tools |-> << >>]), err |-> ""]

\* the ids of the nodes of the graph
KGNodes == {"a", "b", "c"}
\* a nil node of an edge
NilNode == "<nil>"
\* an edge, by the ids of its From() and To()
Edge(x, y) == [from |-> x, to |-> y]
\* what a call on the graph returned; err "" is the nil error
KGRet(path, err) == [path |-> path, err |-> err]
NoPathRet == KGRet(<< >>, "<none>")

\* the number of edges stored
RECURSIVE SumLen(_, _)
SumLen(f, S) ==
    IF S = {} THEN 0
    ELSE LET x == CHOOSE y \in S : TRUE IN Len(f[x]) + SumLen(f, S \ {x})

\* the edges at key x of the Edges map: the nil slice when the key is absent
EdgesAt(edges, x) == IF x \in DOMAIN edges THEN edges[x] ELSE << >>

\* AddNode: a node that validates (its type is not empty) is stored by its id
AddNode(n, typed) ==
    /\ IF typed
       THEN /\ kgNodes' = kgNodes \cup {n}
            /\ kgRet' = KGRet(<< >>, "")
       ELSE /\ kgRet' = KGRet(<< >>, "invalid node: node type cannot be empty")
            /\ UNCHANGED kgNodes
    /\ UNCHANGED kgEdges
    /\ UNCHANGED <<model, modelErr, mixinVars>>
    /\ UNCHANGED <<clientVars, serverVars, raceVars>>

\* AddEdge: an edge that validates (neither node is nil) is appended to the
\* list of its From node
AddEdge(x, y) ==
    /\ IF x = NilNode \/ y = NilNode
       THEN /\ kgRet' = KGRet(<< >>,
                  "invalid edge: edge must have both from and to nodes")
            /\ UNCHANGED kgEdges
       ELSE /\ SumLen(kgEdges, DOMAIN kgEdges) < MaxEdges
            /\ kgEdges' = MapPut(kgEdges, x, Append(EdgesAt(kgEdges, x), Edge(x, y)))
            /\ kgRet' = KGRet(<< >>, "")
    /\ UNCHANGED kgNodes
    /\ UNCHANGED <<model, modelErr, mixinVars>>
    /\ UNCHANGED <<clientVars, serverVars, raceVars>>

\* RemoveNode: a stored node goes, and with it the edges kept under its id
RemoveNode(nodeID) ==
    /\ IF nodeID \notin kgNodes
       THEN /\ kgRet' = KGRet(<< >>, "node not found: " \o nodeID)
            /\ UNCHANGED <<kgNodes, kgEdges>>
       ELSE /\ kgNodes' = kgNodes \ {nodeID}
            /\ kgEdges' = MapDelete(kgEdges, nodeID)
            /\ kgRet' = KGRet(<< >>, "")
    /\ UNCHANGED <<model, modelErr, mixinVars>>
    /\ UNCHANGED <<clientVars, serverVars, raceVars>>

\* RemoveEdge: the first edge from fromID that leads to toID goes
RemoveEdge(fromID, toID) ==
    /\ IF fromID \notin DOMAIN kgEdges
       THEN /\ kgRet' = KGRet(<< >>, "no edges found for node: " \o fromID)
            /\ UNCHANGED kgEdges
       ELSE LET edges == kgEdges[fromID]
                hits == {i \in 1..Len(edges) : edges[i].to = toID} IN
            IF hits = {}
            THEN /\ kgRet' = KGRet(<< >>, "edge not found from " \o fromID
                                          \o " to " \o toID)
                 /\ UNCHANGED kgEdges
            ELSE LET i == CHOOSE k \in hits : \A l \in hits : k <= l IN
                 /\ kgEdges' = [kgEdges EXCEPT ![fromID] =
                        SubSeq(edges, 1, i - 1) \o SubSeq(edges, i + 1, Len(edges))]
                 /\ kgRet' = KGRet(<< >>, "")
    /\ UNCHANGED kgNodes
    /\ UNCHANGED <<model, modelErr, mixinVars>>
    /\ UNCHANGED <<clientVars, serverVars, raceVars>>

\* FindPath, lines 175-184: the loop over the edges of current
RECURSIVE ScanEdges(_, _, _, _, _)
ScanEdges(es, path, queue, visited, current) ==
    IF es = << >>
    THEN [queue |-> queue, visited |-> visited, current |-> current]
    ELSE IF Head(es).to \in visited
    THEN ScanEdges(Tail(es), path, queue, visited, current)
    ELSE ScanEdges(Tail(es), path, Append(queue, Append(path, Head(es))),
                   visited \cup {Head(es).to}, Head(es).to)

\* FindPath, lines 166-188: the loop over the queue
RECURSIVE FindPathLoop(_, _, _, _, _, _)
FindPathLoop(edges, queue, visited, current, from, to) ==
    IF queue = << >>
    THEN KGRet(<< >>, "no path found from " \o from \o " to " \o to)
    ELSE IF current = to
    THEN KGRet(Head(queue), "")
    ELSE LET r == ScanEdges(EdgesAt(edges, current), Head(queue), Tail(queue),
                            visited, current) IN
         FindPathLoop(edges, r.queue, r.visited, r.current, from, to)

\* FindPath(from, to) on the edges stored
FindPath(edges, from, to) ==
    FindPathLoop(edges, << << >> >>, {}, from, from, to)

\* path, err := g.FindPath(from, to)
FindPath_Call(from, to) ==
    /\ kgRet' = FindPath(kgEdges, from, to)
    /\ UNCHANGED <<kgNodes, kgEdges>>
    /\ UNCHANGED <<model, modelErr, mixinVars>>
    /\ UNCHANGED <<clientVars, serverVars, raceVars>>

NextGraph ==
    \/ \E n \in KGNodes, typed \in BOOLEAN : AddNode(n, typed)
    \/ \E x, y \in KGNodes \cup {NilNode} : AddEdge(x, y)
    \/ \E nodeID \in KGNodes : RemoveNode(nodeID)
    \/ \E fromID, toID \in KGNodes : RemoveEdge(fromID, toID)
    \/ \E from, to \in KGNodes : FindPath_Call(from, to)

InitLib ==
    /\ model = NilPtr
    /\ modelErr = ""
    /\ mxServer = NilPtr
    /\ mxClient = NilPtr
    /\ mxErr = ""
    /\ mxStarts = 0
    /\ kgNodes = {}
    /\ kgEdges = << >>
    /\ kgRet = NoPathRet

\* model, err := impl.NewModel(config)
NewModel_Call(config) ==
    /\ model' = NewModel(config).model
    /\ modelErr' = NewModel(config).err
    /\ UNCHANGED <<clientVars, serverVars, raceVars, mixinVars, graphVars>>

\* (*model).RegisterTool on the model NewModel returned
model_RegisterTool(tool) ==
    /\ model # NilPtr
    /\ IF tool = NilPtr
       THEN /\ modelErr' = "tool cannot be nil"
            /\ UNCHANGED model
       ELSE IF tool[1].Name = ""
       THEN /\ modelErr' = "tool name is required"
            /\ UNCHANGED model
       ELSE /\ model' = Ref([model[1] EXCEPT
                               !.tools = MapPut(@, tool[1].Name, tool[1])])
            /\ modelErr' = ""
    /\ UNCHANGED <<clientVars, serverVars, raceVars, mixinVars, graphVars>>

\* mcp.NewServer(): a Server with empty registries
NewServer == [tools |-> << >>, resources |-> << >>, prompts |-> << >>]

\* StartMCPServer
StartMCPServerAlways ==
    /\ mxStarts < MaxStarts
    /\ mxServer' = Ref(NewServer)
    /\ mxErr' = ""
    /\ mxStarts' = mxStarts + 1
    /\ UNCHANGED <<mxClient, model, modelErr>>
    /\ UNCHANGED <<clientVars, serverVars, raceVars, graphVars>>
StartMCPServer ==
    /\ IF mxServer # NilPtr
       THEN /\ mxErr' = "MCP server already running"
            /\ UNCHANGED <<mxServer, mxStarts>>
       ELSE /\ mxStarts < MaxStarts
            /\ mxServer' = Ref(NewServer)
            /\ mxErr' = ""
            /\ mxStarts' = mxStarts + 1
    /\ UNCHANGED <<mxClient, model, modelErr>>
    /\ UNCHANGED <<clientVars, serverVars, raceVars, graphVars>>

\* StopMCPServer
StopMCPServer ==
    /\ IF mxServer = NilPtr
       THEN /\ mxErr' = "MCP server not running"
            /\ UNCHANGED mxServer
       ELSE /\ mxServer' = NilPtr
            /\ mxErr' = ""
    /\ UNCHANGED <<mxClient, mxStarts, model, modelErr>>
    /\ UNCHANGED <<clientVars, serverVars, raceVars, graphVars>>

\* RegisterMCPTool, RegisterMCPResource, RegisterMCPPrompt: the nil check,
\* then Register* of the mixin's Server on the registry reg with the key
RegisterMCP(reg, kind, key, entry) ==
    /\ IF mxServer = NilPtr
       THEN /\ mxErr' = "MCP server not running"
            /\ UNCHANGED mxServer
       ELSE IF RegisterExists(mxServer[1][reg], key)
       THEN /\ mxErr' = kind \o " " \o key \o " already registered"
            /\ UNCHANGED mxServer
       ELSE /\ mxServer' = Ref([mxServer[1] EXCEPT
                                  ![reg] = MapPut(@, key, entry)])
            /\ mxErr' = ""
    /\ UNCHANGED <<mxClient, mxStarts, model, modelErr>>
    /\ UNCHANGED <<clientVars, serverVars, raceVars, graphVars>>
RegisterMCPTool(t) == RegisterMCP("tools", "tool", t.name, t)
RegisterMCPResource(r) == RegisterMCP("resources", "resource", r.uri, r)
RegisterMCPPrompt(p) == RegisterMCP("prompts", "prompt", p.name, p)

\* the urls the application dials
Urls == {"ws://a", "ws://b"}

\* ConnectToMCP; dialed is whether websocket Dial in NewClient succeeded
ConnectToMCP(url, dialed) ==
    /\ IF mxClient # NilPtr
       THEN /\ mxErr' = "already connected to MCP server"
            /\ UNCHANGED mxClient
       ELSE IF ~dialed
       THEN /\ mxErr' = "error connecting to MCP server: error connecting to server"
            /\ UNCHANGED mxClient
       ELSE /\ mxClient' = Ref([url |-> url])
            /\ mxErr' = ""
    /\ UNCHANGED <<mxServer, mxStarts, model, modelErr>>
    /\ UNCHANGED <<clientVars, serverVars, raceVars, graphVars>>

\* DisconnectFromMCP; closed is whether Client.Close returned nil
DisconnectFromMCPAlwaysClears(closed) ==
    /\ IF mxClient = NilPtr
       THEN /\ mxErr' = "not connected to MCP server"
            /\ UNCHANGED mxClient
       ELSE /\ mxClient' = NilPtr
            /\ mxErr' = IF closed THEN "" ELSE "error closing MCP connection"
    /\ UNCHANGED <<mxServer, mxStarts, model, modelErr>>
    /\ UNCHANGED <<clientVars, serverVars, raceVars, graphVars>>
DisconnectFromMCP(closed) ==
    /\ IF mxClient = NilPtr
       THEN /\ mxErr' = "not connected to MCP server"
            /\ UNCHANGED mxClient
       ELSE IF ~closed
       THEN /\ mxErr' = "error closing MCP connection"
            /\ UNCHANGED mxClient
       ELSE /\ mxClient' = NilPtr
            /\ mxErr' = ""
    /\ UNCHANGED <<mxServer, mxStarts, model, modelErr>>
    /\ UNCHANGED <<clientVars, serverVars, raceVars, graphVars>>

\* the errors a sendRequest of the Client returns (no response reaches a
\* caller, the reader's lookup never matches)
SendRequestErrs == {CtxErr("canceled"), CtxErr("deadline"), "error sending request"}

\* CallMCPTool and ListMCPTools: the nil check, then the Client's call
CallMCP(method) ==
    /\ IF mxClient = NilPtr
       THEN mxErr' = "not connected to MCP server"
       ELSE \E e \in SendRequestErrs :
               mxErr' = method \o " request failed: " \o e
    /\ UNCHANGED <<mxServer, mxClient, mxStarts, model, modelErr>>
    /\ UNCHANGED <<clientVars, serverVars, raceVars, graphVars>>
CallMCPTool == CallMCP("tools/call")
ListMCPTools == CallMCP("tools/list")

NextMixin ==
    \/ StartMCPServer
    \/ StopMCPServer
    \/ \E t \in ToolEntries : RegisterMCPTool(t)
    \/ \E r \in ResourceEntries : RegisterMCPResource(r)
    \/ \E p \in PromptEntries : RegisterMCPPrompt(p)
    \/ \E url \in Urls, dialed \in BOOLEAN : ConnectToMCP(url, dialed)
    \/ \E closed \in BOOLEAN : DisconnectFromMCP(closed)
    \/ CallMCPTool
    \/ ListMCPTools

NextModel ==
    \/ \E config \in ConfigPtrs : NewModel_Call(config)
    \/ \E tool \in ToolPtrs : model_RegisterTool(tool)

\* goroutines of the application that call sendNotification
Notifiers == {"n1"}

InitRace ==
    /\ started = {}
    /\ notifying = {}
    /\ lookup = 0
    /\ regStarted = FALSE
    /\ overlapped = {}

\* the goroutines that are inside conn.WriteJSON
Writing ==
    {g \in Callers : callPc[g] = "write" /\ callId[g] \in started}
    \cup notifying

\* the calls that overlap once goroutine w begins its conn.WriteJSON call
Overlap(w) ==
    IF Writing # {} THEN overlapped \cup Writing \cup {w} ELSE overlapped \ {w}

\* sendRequest, line 192: the call of conn.WriteJSON begins; nothing in the
\* Client serialises it with other writers
WriteJSON_Begin(g) ==
    /\ Alive
    /\ callPc[g] = "write"
    /\ callId[g] \notin started
    /\ started' = started \cup {callId[g]}
    /\ overlapped' = Overlap(g)
    /\ UNCHANGED <<notifying, lookup, regStarted>>
    /\ UNCHANGED <<clientVars, serverVars, libVars>>

\* sendRequest, lines 192-194: conn.WriteJSON returns, its message written
\* whole (or the connection being closed)
WriteJSON_End(g) ==
    /\ callId[g] \in started
    /\ sendRequest_Write(g)

\* what a write that overlapped another write may have put on the wire
GarbledMsg == [id |-> AbsentID, method |-> "<garbled>"]

\* conn.WriteJSON of sendRequest returns nil after a write that overlapped
\* another one: the frames of the two messages may be interleaved
WriteJSON_EndGarbled(g) ==
    /\ Alive
    /\ callPc[g] = "write"
    /\ callId[g] \in started
    /\ g \in overlapped
    /\ cliConn = "open"
    /\ sent' = Append(sent, GarbledMsg)
    /\ callPc' = [callPc EXCEPT ![g] = "select"]
    /\ UNCHANGED <<nextID, responses, chans, handlers, cliConn, inbound,
                   hostSent, readerPc, readerMsg, readerCh, spawned, callId,
                   callMethod, ctx, ret, issued, initPc, initRet>>
    /\ UNCHANGED <<serverVars, libVars, raceVars>>

\* the final frame of a message writer that was closed with nothing in it
EmptyFrame == [id |-> AbsentID, method |-> "<empty>"]

\* conn.WriteJSON of sendRequest returns an error after a write that
\* overlapped another one, the connection being open: the other call closed
\* this one's message writer, which flushed its final frame, with the
\* message whole in it or with nothing in it yet, and sendRequest returns
\* at line 193 through its deferred delete
WriteJSON_EndClosed(g) ==
    /\ Alive
    /\ callPc[g] = "write"
    /\ callId[g] \in started
    /\ g \in overlapped
    /\ cliConn = "open"
    /\ \E flushed \in BOOLEAN :
          sent' = IF flushed
                  THEN Append(sent, [id |-> EncodeID(Int64Val(callId[g])),
                                     method |-> callMethod[g]])
                  ELSE Append(sent, EmptyFrame)
    /\ responses' = DeferredDelete(responses, callId[g])
    /\ ret' = [ret EXCEPT ![g] = RetWrite(callId[g])]
    /\ Return(g)
    /\ UNCHANGED <<nextID, chans, handlers, cliConn, inbound, hostSent,
                   readerPc, readerMsg, readerCh, spawned, issued, initPc,
                   initRet>>
    /\ UNCHANGED <<serverVars, libVars, raceVars>>

\* sendNotification, line 214: the call of conn.WriteJSON begins
sendNotification_Begin(h) ==
    /\ Alive
    /\ h \notin notifying
    /\ Len(sent) < MaxCalls
    /\ notifying' = notifying \cup {h}
    /\ overlapped' = Overlap(h)
    /\ UNCHANGED <<started, lookup, regStarted>>
    /\ UNCHANGED <<clientVars, serverVars, libVars>>

\* sendNotification, line 214: conn.WriteJSON returns; after an overlap the
\* frame may be garbled, or the call may fail with its message writer
\* closed by the other call and an empty final frame on the wire
sendNotification_End(h, method) ==
    /\ Alive
    /\ h \in notifying
    /\ notifying' = notifying \ {h}
    /\ \/ \E ok \in BOOLEAN : sendNotification(method, ok)
       \/ /\ h \in overlapped
          /\ cliConn = "open"
          /\ sent' = Append(sent, GarbledMsg)
          /\ UNCHANGED <<nextID, responses, chans>>
       \/ /\ h \in overlapped
          /\ cliConn = "open"
          /\ sent' = Append(sent, EmptyFrame)
          /\ UNCHANGED <<nextID, responses, chans>>
    /\ UNCHANGED <<handlers, cliConn, inbound, hostSent, readerPc, readerMsg,
                   readerCh, spawned, callPc, callId, callMethod, ctx, ret,
                   issued, initPc, initRet>>
    /\ UNCHANGED <<started, lookup, regStarted, overlapped>>
    /\ UNCHANGED <<serverVars, libVars>>

\* the websocket connection detects two writers and panics: in a call that
\* is inside WriteJSON and has been there together with another one
ConcurrentWrite_Panic ==
    /\ Alive
    /\ Writing \cap overlapped # {}
    /\ readerPc' = "panicked"
    /\ UNCHANGED <<nextID, responses, chans, handlers, cliConn, sent, inbound,
                   hostSent, readerMsg, readerCh, spawned, callPc, callId,
                   callMethod, ctx, ret, issued, initPc, initRet>>
    /\ UNCHANGED <<serverVars, libVars, raceVars>>

\* goroutines that send requests and notifications on one Client
NextWrites ==
    \/ \E g \in Callers, method \in ReqMethods : sendRequest_Alloc(g, method)
    \/ \E g \in Callers : sendRequest_Register(g)
    \/ \E g \in Callers : WriteJSON_Begin(g)
    \/ \E g \in Callers : WriteJSON_End(g)
    \/ \E g \in Callers : WriteJSON_EndGarbled(g)
    \/ \E g \in Callers : WriteJSON_EndClosed(g)
    \/ \E g \in Callers : sendRequest_Select(g)
    \/ \E g \in Callers, k \in {"canceled", "deadline"} : CtxDone(g, k)
    \/ \E h \in Notifiers : sendNotification_Begin(h)
    \/ \E h \in Notifiers, method \in NotifyMethods : sendNotification_End(h, method)
    \/ ConcurrentWrite_Panic
    \/ Close

\* a RegisterNotificationHandler call is inside its write of c.handlers
Registering == regStarted /\ Notification \notin handlers

\* RegisterNotificationHandler, line 219: the map assignment begins, with no
\* lock taken
RegisterNotificationHandler_Begin ==
    /\ Alive
    /\ ~regStarted
    /\ Notification \notin handlers
    /\ regStarted' = TRUE
    /\ UNCHANGED <<started, notifying, lookup, overlapped>>
    /\ UNCHANGED <<clientVars, serverVars, libVars>>
RegisterNotificationHandler_End ==
    /\ regStarted
    /\ RegisterNotificationHandler

\* handleMessages, lines 150-151: a notification has been read (off the open
\* connection, or out of the read buffer of a closed one) and the lookup in
\* c.handlers begins, with no lock taken
handleMessages_Lookup ==
    /\ Alive
    /\ readerPc = "read"
    /\ inbound # << >>
    /\ Head(inbound).method = Notification
    /\ lookup # HeadIndex
    /\ lookup' = HeadIndex
    /\ UNCHANGED <<started, notifying, regStarted, overlapped>>
    /\ UNCHANGED <<clientVars, serverVars, libVars>>
\* the rest of the loop iteration; a notification is dispatched by the
\* iteration whose lookup has begun
handleMessages_Dispatch ==
    /\ handleMessages
    /\ (/\ readerPc = "read" /\ inbound # << >>
        /\ Head(inbound).method = Notification
        /\ inbound' # inbound) => Looking

\* the Go runtime detects the concurrent map read and map write and aborts
ConcurrentMap_Fatal ==
    /\ Alive
    /\ Looking
    /\ Registering
    /\ readerPc' = "panicked"
    /\ UNCHANGED <<nextID, responses, chans, handlers, cliConn, sent, inbound,
                   hostSent, readerMsg, readerCh, spawned, callPc, callId,
                   callMethod, ctx, ret, issued, initPc, initRet>>
    /\ UNCHANGED <<serverVars, libVars, raceVars>>

\* the reader and an application that registers its handler after NewClient
NextHandlers ==
    \/ RegisterNotificationHandler_Begin
    \/ RegisterNotificationHandler_End
    \/ handleMessages_Lookup
    \/ handleMessages_Dispatch
    \/ ConcurrentMap_Fatal
    \/ \E m \in InMsgs : HostSend(m)
    \/ Close

vars == <<clientVars, serverVars, libVars, raceVars>>

Init == InitClient /\ InitServer /\ InitLib /\ InitRace

SpecWrites == Init /\ [][NextWrites]_vars
SpecHandlers == Init /\ [][NextHandlers]_vars

\* an application that makes models and registers tools with them
SpecModel == Init /\ [][NextModel]_vars
\* an application that builds a KnowledgeGraph and searches it
SpecGraph == Init /\ [][NextGraph]_vars
\* an application that drives an MCPModelMixin
SpecMixin == Init /\ [][NextMixin]_vars

SpecClient == Init /\ [][NextClient]_vars

\* the answers the host may give to the first initialize request
InitializeMsgs == [id : {NumID(1)}, method : {""},
                   error : {"none"}, result : {"{}", "5"}]
                  \cup [id : {NumID(1)}, method : {""},
                        error : {"boom"}, result : {""}]
\* the peer's handshake: Initialize and SendNotification, with the reader
NextInitialize ==
    \/ \E g \in Callers : Initialize_Call(g)
    \/ \E g \in Callers : Initialize_Request(g)
    \/ \E g \in Callers : sendRequest_Register(g)
    \/ \E g \in Callers : sendRequest_Write(g)
    \/ \E g \in Callers : sendRequest_Select(g)
    \/ \E g \in Callers : Initialize_Return(g)
    \/ \E g \in Callers, k \in {"canceled", "deadline"} : CtxDone(g, k)
    \/ \E method \in NotifyMethods : SendNotification(method)
    \/ Close
    \/ \E m \in InitializeMsgs : HostSend(m)
    \/ handleMessages
SpecInitialize == Init /\ [][NextInitialize]_vars
\* two connections and a few messages of each kind: what one connection does
\* to another
CoreMsgs == {m \in SrvMsgs :
                /\ m.id = NumID(1)
                /\ m.method \in {"tools/list", "resources/write", "bogus"}
                /\ m.params.content # "m2"}
SpecServer == Init /\ [][NextServerOn(Conns, CoreMsgs)]_vars
\* one connection and every message: what the host answers
SpecDispatch == Init /\ [][NextServerOn({"A"}, SrvMsgs)]_vars

\* the Go scheduler runs every goroutine that can take a step; the caller's
\* cancellation, the host and Close are under nobody's obligation
FairSpecClient ==
    /\ SpecClient
    /\ WF_vars(handleMessages)
    /\ \A g \in Callers : WF_vars(sendRequest_Register(g))
    /\ \A g \in Callers : WF_vars(sendRequest_Write(g))
    /\ \A g \in Callers : WF_vars(sendRequest_Select(g))

\* calls whose responses the host sends, once or more than once, while the
\* callers cancel: responses that carry the first id
DeliveryMsgs == {m \in InMsgs : m.method = "" /\ m.id = NumID(1)}
NextDelivery ==
    \/ \E g \in Callers, method \in ReqMethods : sendRequest_Alloc(g, method)
    \/ \E g \in Callers : sendRequest_Register(g)
    \/ \E g \in Callers : sendRequest_Write(g)
    \/ \E g \in Callers : sendRequest_Select(g)
    \/ \E g \in Callers, k \in {"canceled", "deadline"} : CtxDone(g, k)
    \/ \E m \in DeliveryMsgs : HostSend(m)
    \/ handleMessages
FairSpecDelivery ==
    /\ Init /\ [][NextDelivery]_vars
    /\ WF_vars(handleMessages)
    /\ \A g \in Callers : WF_vars(sendRequest_Register(g))
    /\ \A g \in Callers : WF_vars(sendRequest_Write(g))
    /\ \A g \in Callers : WF_vars(sendRequest_Select(g))

\* a handler or a Register* call that waits for s.mu goes on when s.mu is free
Resume(c) ==
    /\ connPc[c] = "handle"
    /\ \E m \in CoreMsgs : \E ord \in Orders(DOMAIN m.params.vars) :
          HandleConnection_Loop(c, m, ord)
ResumeRegister ==
    /\ appPc = "blocked"
    /\ \/ \E t \in ToolEntries : RegisterTool(t)
       \/ \E r \in ResourceEntries : RegisterResource(r)
       \/ \E p \in PromptEntries : RegisterPrompt(p)
FairSpecServer ==
    /\ SpecServer
    /\ \A c \in Conns : WF_vars(Resume(c))
    /\ \A c \in Conns : WF_vars(HandleConnection_Write(c))
    /\ WF_vars(ResumeRegister)

\* two connections that shake hands and write a resource: what the
\* ClientState of a connection goes through
SessionMsgs == {m \in SrvMsgs :
                   \/ m.method = "initialize" /\ m.params.key = "r1" /\ m.id = NumID(1)
                   \/ m.method = "initialized" /\ m.id = AbsentID
                   \/ m.method = "resources/write" /\ m.params.key = "u2"}
SpecSessions == Init /\ [][NextServerOn(Conns, SessionMsgs)]_vars
\* two connections that shake hands and render a prompt: what the answers
\* depend on
AnswerMsgs == {m \in SrvMsgs :
                  \/ m.method = "initialize" /\ m.params.key = "r1" /\ m.id = NumID(1)
                  \/ m.method = "initialized" /\ m.id = AbsentID
                  \/ /\ m.method = "prompts/render" /\ m.id = NumID(1)
                     /\ DOMAIN m.params.vars = {<<"n">>, <<"m">>}}
SpecAnswers == Init /\ [][NextServerOn(Conns, AnswerMsgs)]_vars
\* two connections that list the registries while the application registers
\* and resources are written: the list handlers take their steps one by one
ListingMsgs == {m \in SrvMsgs :
                   /\ m.id = NumID(1)
                   /\ \/ m.method \in ListMethods
                      \/ m.method = "resources/write" /\ m.params.key = "u1"}
NextListing ==
    \/ \E t \in ToolEntries : RegisterTool(t)
    \/ \E r \in ResourceEntries : RegisterResource(r)
    \/ \E p \in PromptEntries : RegisterPrompt(p)
    \/ \E c \in Conns : HandleConnection_Start(c)
    \/ \E c \in Conns, m \in ListingMsgs : handleList_RLock(c, m)
    \/ \E c \in Conns : handleList_Copy(c)
    \/ \E c \in Conns : handleList_RUnlock(c)
    \/ \E c \in Conns, m \in ListingMsgs :
          /\ m.method \notin ListMethods
          /\ \E ord \in Orders(DOMAIN m.params.vars) : HandleConnection_Loop(c, m, ord)
    \/ \E c \in Conns : HandleConnection_Write(c)
SpecListing == Init /\ [][NextListing]_vars
\* an answer that is built is written; a HandleConnection whose loop has
\* ended runs its deferred functions, the first one when s.mu is free
FairSpecSessions ==
    /\ SpecSessions
    /\ \A c \in Conns : WF_vars(HandleConnection_Write(c))
    /\ \A c \in Conns : WF_vars(HandleConnection_Cleanup(c))
    /\ \A c \in Conns : WF_vars(HandleConnection_Return(c))

(***************************************************************************)
(* Claims about the peer session.                                          *)
(***************************************************************************)
\* this step is handleMessages reading the message at the head of inbound,
\* a frame that decodes
ReaderReads ==
    /\ readerPc = "read"
    /\ inbound # << >>
    /\ Head(inbound).method # Undecodable
    /\ inbound' = Tail(inbound)

\* caller g is inside sendRequest with the id n, registered and not returned
Pending(g, n) == callPc[g] \in {"write", "select"} /\ callId[g] = n

\* C1: with several sendRequest calls in flight and the responses arriving
\* in any order, a call that returns a response (or the remote error of one)
\* returns the one it takes from its own channel, which carries the id the
\* call allocated; a channel only ever holds messages with the id it was made
\* for, a message read goes into one channel at most, and the call that
\* returns a response takes it out, so that no other call returns it.
C1_EachCallReturnsOwnResponse ==
    /\ [](\A k \in DOMAIN chans :
            \A i \in 1..Len(chans[k]) : chans[k][i].id = NumID(k))
    /\ [](readerPc = "send" => readerMsg.id = NumID(readerCh))
    /\ [][/\ \A g \in Callers :
               (/\ callPc[g] = "select" /\ callPc'[g] = "idle"
                /\ ret'[g] # RetCtx(callId[g], ctx[g])) =>
                   /\ chans[callId[g]] # << >>
                   /\ Head(chans[callId[g]]).id = NumID(callId[g])
                   /\ ret'[g] = IF Head(chans[callId[g]]).error # "none"
                                THEN RetRemote(callId[g], Head(chans[callId[g]]))
                                ELSE RetResponse(callId[g], Head(chans[callId[g]]))
                   /\ chans'[callId[g]] = Tail(chans[callId[g]])
                   /\ \A k \in DOMAIN chans \ {callId[g]} : chans'[k] = chans[k]
           /\ \A k \in DOMAIN chans :
               (k \in DOMAIN chans' /\ Len(chans'[k]) > Len(chans[k])) =>
                   \A j \in DOMAIN chans \ {k} : chans'[j] = chans[j]]_vars

\* two calls wait with the ids 1 and 2 while the reader has read one message
\* of the host and a response for the call 1 is the next; no channel holds
\* anything
C1_Witness ==
    /\ \E g, h \in Callers :
          /\ callPc[g] = "select" /\ callId[g] = 1
          /\ callPc[h] = "select" /\ callId[h] = 2
    /\ hostSent = 2
    /\ Len(inbound) = 1
    /\ inbound[1].method = "" /\ inbound[1].id = NumID(1)
    /\ readerPc = "read"
    /\ \A k \in DOMAIN chans : chans[k] = << >>

\* sendRequest of caller g, with the id n, has returned a response carrying
\* that id, or the remote error of such a response
ReturnedResponse(g, n) ==
    \E x \in InMsgs :
        /\ x.method # Notification
        /\ x.id = NumID(n)
        /\ ret[g] = IF x.error # "none" THEN RetRemote(n, x) ELSE RetResponse(n, x)

\* C2: a call that is blocked in its select, with its context not done, when
\* a response carrying its id is the next message the reader reads,
\* eventually returns the response for its id (as a remote error when the
\* response carries one), unless its context ends or the connection closes
\* first.
C2_ResponseEventuallyReturned ==
    \A g \in Callers : \A n \in 1..MaxCalls :
        (/\ callPc[g] = "select" /\ callId[g] = n /\ ctx[g] = "active"
         /\ readerPc = "read" /\ cliConn = "open"
         /\ inbound # << >>
         /\ Head(inbound).method # Notification
         /\ Head(inbound).id = NumID(n))
        ~> (\/ ReturnedResponse(g, n)
            \/ callId[g] = n /\ ctx[g] # "active"
            \/ cliConn = "closed"
            \/ ~Alive)

\* C3: the responses table holds exactly the entries of the sendRequest
\* calls that have stored theirs and not returned, each under the key of
\* its own id and with its own channel: a call that has returned (on any
\* outcome) has removed its entry, nothing else removes it, a call that has
\* allocated its id and not yet stored its channel has none, and with no
\* call in progress the table is empty.
C3_PendingEntriesAreOwn ==
    /\ DOMAIN responses =
          {KeyOf(callId[g]) : g \in {h \in Callers : callPc[h] \in {"write", "select"}}}
    /\ \A g \in Callers :
          callPc[g] \in {"write", "select"} => responses[KeyOf(callId[g])] = callId[g]
    /\ (\A g \in Callers : callPc[g] = "idle") => DOMAIN responses = {}

\* two calls have returned, one on a failed write and one on a cancelled
\* context, and the table is empty
C3_Witness ==
    /\ \A g \in Callers : callPc[g] = "idle"
    /\ \E g, h \in Callers :
          /\ ret[g] = RetWrite(ret[g].call) /\ ret[g].call > 0
          /\ ret[h] = RetCtx(ret[h].call, "canceled") /\ ret[h].call > 0
    /\ DOMAIN responses = {}

\* C4: a call blocked in its select whose context is done can return at
\* once, without a response; when it returns with no response delivered it
\* returns the error of its context, which no remote error equals.
C4_CancelReturnsContextError ==
    /\ [](\A g \in Callers :
            Alive /\ callPc[g] = "select" /\ ctx[g] # "active"
               => ENABLED sendRequest_Select(g))
    /\ [][\A g \in Callers :
            callPc[g] = "select" /\ callPc'[g] = "idle" /\ chans[callId[g]] = << >>
               => /\ ctx[g] # "active"
                  /\ ret'[g] = RetCtx(callId[g], ctx[g])
                  /\ ret'[g].err = CtxErr(ctx[g])
                  /\ \A m \in InMsgs : ret'[g] # RetRemote(callId[g], m)]_vars

\* a call returned on its deadline while the response for it was never
\* delivered
C4_Witness ==
    \E g \in Callers :
        /\ callPc[g] = "idle"
        /\ ret[g].call > 0
        /\ ret[g].err = "context deadline exceeded"
        /\ chans[ret[g].call] = << >>

\* C5: an inbound message that is no notification and whose id has no entry
\* in the responses table is discarded: the table, the channels and the
\* calls stay as they are and the reader goes on to the next read.
C5_UnknownIdDiscarded ==
    [][/\ ReaderReads
       /\ Head(inbound).method # Notification
       /\ DecodeID(Head(inbound).id) \notin DOMAIN responses
       => /\ responses' = responses
          /\ chans' = chans
          /\ callPc' = callPc
          /\ ret' = ret
          /\ readerPc' = "read"]_vars

\* C6: the ids are allocated in strictly increasing order, two calls in
\* progress never share an id, and no two entries of the table share a
\* channel.
C6_IdsStrictlyIncreasing ==
    /\ \A i, j \in 1..Len(issued) : i < j => issued[i] < issued[j]
    /\ \A g, h \in Callers :
          g # h /\ callPc[g] # "idle" /\ callPc[h] # "idle" => callId[g] # callId[h]
    /\ \A k1, k2 \in DOMAIN responses : k1 # k2 => responses[k1] # responses[k2]

\* two calls are in progress at once: one waits with the id 1 stored, the
\* other has allocated the id 2 and not yet stored its channel
C6_Witness ==
    /\ issued = <<1, 2>>
    /\ \E g, h \in Callers :
          /\ callPc[g] = "select" /\ callId[g] = 1
          /\ callPc[h] = "alloc" /\ callId[h] = 2
    /\ DOMAIN responses = {KeyOf(1)}

(***************************************************************************)
(* Claims about the host session.                                          *)
(***************************************************************************)
\* this step is an iteration of the loop of connection c on the message m
\* in which the handler (or the dispatch) runs to its end; the iteration
\* leaves its connection and its message in last
Handles(c, m) ==
    /\ last'.conn = c
    /\ last'.msg = m
    /\ UNCHANGED <<transport, nRegs, appPc>>
    /\ connPc'[c] # "handle"
    /\ \E ord \in Orders(DOMAIN m.params.vars) : HandleConnection_Loop(c, m, ord)
\* this step of the iteration of c makes the one WriteJSON call of the answer
\* the iteration has built, for the message the iteration is for; the write
\* reaches the peer when the transport takes writes
OneWrite(c) ==
    /\ last'.conn = c
    /\ last'.msg = out[c].msg
    /\ last'.written = <<Written(out[c].resp, transport[c] = "up")>>
    /\ out'[c] = NoOut
    /\ UNCHANGED <<tools, resources, prompts, clients, mu>>

\* C7: Register* with a key that is present returns the already-registered
\* error and leaves the registry as it was; with a new key it returns nil
\* and adds the entry; a registered key stays registered, and every list
\* request is answered with all the entries of its registry.
C7_RegisterKeepsFirstEntry ==
    [][/\ \A t \in ToolEntries : RegisterTool(t) /\ mu = "unlocked" =>
             IF t.name \in DOMAIN tools
             THEN tools' = tools /\ appRet' = "tool " \o t.name \o " already registered"
             ELSE tools' = MapPut(tools, t.name, t) /\ appRet' = "<nil>"
       /\ \A r \in ResourceEntries : RegisterResource(r) /\ mu = "unlocked" =>
             IF r.uri \in DOMAIN resources
             THEN resources' = resources
                  /\ appRet' = "resource " \o r.uri \o " already registered"
             ELSE resources' = MapPut(resources, r.uri, r) /\ appRet' = "<nil>"
       /\ \A p \in PromptEntries : RegisterPrompt(p) /\ mu = "unlocked" =>
             IF p.name \in DOMAIN prompts
             THEN prompts' = prompts
                  /\ appRet' = "prompt " \o p.name \o " already registered"
             ELSE prompts' = MapPut(prompts, p.name, p) /\ appRet' = "<nil>"
       /\ DOMAIN tools \subseteq DOMAIN tools'
       /\ DOMAIN resources \subseteq DOMAIN resources'
       /\ DOMAIN prompts \subseteq DOMAIN prompts'
       /\ \A c \in Conns : Handles(c, last'.msg) =>
             LET m == last'.msg IN
             /\ m.method = "tools/list" =>
                   {e.name : e \in out'[c].resp.result.items} = DOMAIN tools
             /\ m.method = "resources/list" =>
                   {e.uri : e \in out'[c].resp.result.items} = DOMAIN resources
             /\ m.method = "prompts/list" =>
                   {e.name : e \in out'[c].resp.result.items} = DOMAIN prompts
       /\ \A c \in Conns :
             (/\ HandleConnection_Write(c)
              /\ out[c].msg.method \in {"tools/list", "resources/list", "prompts/list"})
             => OneWrite(c)
      ]_vars

\* t1 was registered twice with different descriptions: the second call
\* failed, and the list that followed shows the first entry only
C7_Witness ==
    /\ nRegs = 2
    /\ appRet = "tool t1 already registered"
    /\ last.msg.method = "tools/list"
    /\ last.written # << >>
    /\ last.written[1].msg.result.items = {[name |-> "t1", description |-> "d1"]}

\* C8: for a message whose method has no handler the host makes exactly one
\* write, of the error response with the code -32601, the message "method
\* not found" and the id of the message (it reaches the peer when the
\* transport takes writes), changes no registry and no ClientState, and
\* goes on reading.
C8_MethodNotFound ==
    [][\A c \in Conns : LET m == last'.msg IN
          /\ Handles(c, m) /\ m.method \notin ServerHandlers =>
                /\ out'[c] = Out(m, ErrorResponse(m.id, -32601, "method not found"),
                                 TRUE)
                /\ last'.written = << >>
                /\ UNCHANGED <<tools, resources, prompts, clients>>
                /\ connPc'[c] = "write"
          /\ HandleConnection_Write(c) /\ out[c].msg.method \notin ServerHandlers =>
                /\ OneWrite(c)
                /\ connPc'[c] = "read"]_vars

\* a message with a control method and an id was answered, on a host with
\* registered entries and an initialized connection
C8_Witness ==
    /\ last.msg.method = "$/notification"
    /\ last.msg.id = NumID(1)
    /\ last.written # << >>
    /\ last.written[1].ok
    /\ last.written[1].msg.code = -32601
    /\ DOMAIN tools # {}
    /\ "A" \in DOMAIN clients
    /\ clients["A"].Initialized

\* the handler of m returns an error: the params do not decode, or the key
\* is not registered
Malformed(m) ==
    /\ m.method \in {"initialize", "tools/call", "resources/read", "resources/write",
                     "prompts/render"}
    /\ ~m.params.valid
NotFound(m) ==
    /\ m.params.valid
    /\ \/ m.method = "tools/call" /\ m.params.key \notin DOMAIN tools
       \/ m.method \in {"resources/read", "resources/write"}
          /\ m.params.key \notin DOMAIN resources
       \/ m.method = "prompts/render" /\ m.params.key \notin DOMAIN prompts
ErrorText(m) ==
    IF Malformed(m)
    THEN CASE m.method = "initialize" -> "invalid initialize params"
           [] m.method = "tools/call" -> "invalid tool call params"
           [] m.method = "resources/read" -> "invalid resource read params"
           [] m.method = "resources/write" -> "invalid resource write params"
           [] OTHER -> "invalid prompt render params"
    ELSE CASE m.method = "tools/call" -> "tool " \o m.params.key \o " not found"
           [] m.method = "prompts/render" -> "prompt " \o m.params.key \o " not found"
           [] OTHER -> "resource " \o m.params.key \o " not found"

\* C9: when the handler of a message returns an error the host makes exactly
\* one write, of the error response with the code -32000, the handler's
\* error text and the id of the request, and no other write; the registries
\* stay as they were and the loop goes on to the next read.
C9_HandlerError ==
    [][\A c \in Conns : LET m == last'.msg IN
          /\ Handles(c, m) /\ (Malformed(m) \/ NotFound(m)) =>
                /\ out'[c] = Out(m, ErrorResponse(m.id, -32000, ErrorText(m)), TRUE)
                /\ last'.written = << >>
                /\ UNCHANGED <<tools, resources, prompts>>
                /\ connPc'[c] = "write"
          /\ HandleConnection_Write(c) /\ out[c].resp.code = -32000 =>
                /\ OneWrite(c)
                /\ connPc'[c] = "read"]_vars

\* a tools/call for a name that is not registered was answered with the
\* error, on a host that has a resource registered
C9_Witness ==
    /\ last.written = <<Written(ErrorResponse(NumID(1), -32000, "tool t1 not found"), TRUE)>>
    /\ last.msg.method = "tools/call"
    /\ DOMAIN resources # {}
    /\ connPc["A"] = "read"

\* C10: whatever happened on other connections, a request whose handler
\* waits for the registry lock is eventually handled, and a Register* call
\* eventually returns.
C10_OthersAreServed ==
    /\ \A c \in Conns : (connPc[c] = "handle") ~> (connPc[c] # "handle")
    /\ (appPc = "blocked") ~> (appPc = "idle")

\* C11: a resources/write for a URI that is not registered is answered with
\* the not-found error and changes nothing of the host's state; for a
\* registered URI it replaces the Metadata of that resource by the content,
\* leaves its other fields and every other resource as they were, and is
\* answered with {status: success}.
C11_WriteReplacesOnlyMetadata ==
    [][\A c \in Conns : LET m == last'.msg IN
          Handles(c, m) /\ m.method = "resources/write" /\ m.params.valid =>
             LET uri == m.params.key IN
             IF uri \notin DOMAIN resources
             THEN /\ out'[c].resp =
                        ErrorResponse(m.id, -32000, "resource " \o uri \o " not found")
                  /\ UNCHANGED <<tools, resources, prompts, clients, mu>>
             ELSE /\ out'[c].resp = Response(m.id, StatusSuccess)
                  /\ DOMAIN resources' = DOMAIN resources
                  /\ \A u \in DOMAIN resources \ {uri} : resources'[u] = resources[u]
                  /\ resources'[uri].metadata = m.params.content
                  /\ resources'[uri].uri = resources[uri].uri
                  /\ resources'[uri].type = resources[uri].type
                  /\ resources'[uri].name = resources[uri].name
                  /\ resources'[uri].description = resources[uri].description
                  /\ UNCHANGED <<tools, prompts, clients, mu>>]_vars

\* C12: a handled initialize request whose params decode is answered with
\* exactly one response, with the id of the request and the fixed
\* capabilities document, whatever capabilities it declares and whatever the
\* registries hold; a handled initialized notification sets the Initialized
\* flag of its connection and nothing is written back.
C12_Handshake ==
    [][/\ \A c \in Conns : LET m == last'.msg IN
          Handles(c, m) =>
             /\ m.method = "initialize" /\ m.params.valid =>
                   out'[c] =
                      Out(m, Response(m.id,
                           [tag |-> "capabilities",
                            items |-> {[category |-> "tools", supported |-> TRUE,
                                        types |-> <<"function">>],
                                       [category |-> "resources", supported |-> TRUE,
                                        types |-> <<"file", "memory">>],
                                       [category |-> "prompts", supported |-> TRUE,
                                        types |-> <<"text", "chat">>]},
                            text |-> << >>]), FALSE)
             /\ m.method = "initialized" =>
                   /\ last'.written = << >>
                   /\ out'[c] = NoOut
                   /\ connPc'[c] = "read"
                   /\ c \in DOMAIN clients'
                   /\ clients'[c].Initialized
       /\ \A c \in Conns :
             HandleConnection_Write(c) /\ out[c].msg.method = "initialize"
             => OneWrite(c)]_vars

\* the initialized notification was handled after an initialize that declared
\* two capabilities, on a host with a tool registered
C12_Witness ==
    /\ last.msg.method = "initialized"
    /\ last.conn = "A"
    /\ last.written = << >>
    /\ "A" \in DOMAIN clients
    /\ clients["A"].Initialized
    /\ clients["A"].RootURI = "r2"
    /\ clients["A"].Capabilities = {"resources.read", "prompts.list"}
    /\ DOMAIN tools # {}

\* C13: the Initialized flag of a connection is true only when an initialize
\* request has been handled on that connection before (every initialize the
\* host handles stores a non-empty RootURI), and once true it stays true
\* while the connection has its ClientState.
C13_ReadyOnlyAfterNegotiation ==
    [][\A c \in DOMAIN clients' :
          /\ clients'[c].Initialized => clients'[c].RootURI # ""
          /\ c \in DOMAIN clients /\ clients[c].Initialized => clients'[c].Initialized]_vars

\* C14: once an initialize request has stored the Capabilities and the
\* RootURI of a connection, no later step changes them.
C14_CapabilitiesImmutable ==
    [][\A c \in DOMAIN clients \cap DOMAIN clients' :
          clients[c].RootURI # "" =>
             /\ clients'[c].Capabilities = clients[c].Capabilities
             /\ clients'[c].RootURI = clients[c].RootURI]_vars

\* C15: a connection has a ClientState only while its HandleConnection runs,
\* and has one from before its first read; the ClientState is changed only
\* by the initialize and initialized handlers of its own connection; and
\* when the loop of the connection has ended the ClientState is removed.
C15_ClientStateLifecycle ==
    /\ [](\A c \in Conns :
            /\ c \in DOMAIN clients
                  => connPc[c] \in {"read", "handle", "write", "cleanup"}
            /\ connPc[c] \in {"read", "handle", "write"} => c \in DOMAIN clients)
    /\ [][\A c \in DOMAIN clients \cap DOMAIN clients' :
             clients'[c] # clients[c] =>
                /\ Handles(c, last'.msg)
                /\ last'.msg.method \in {"initialize", "initialized"}]_vars
    /\ \A c \in Conns : (connPc[c] = "cleanup") ~> (c \notin DOMAIN clients)

\* C16: a failed write of an answer (a handler's response or an error
\* response) ends the loop of its connection, as a failed read does; a
\* connection whose loop has ended handles no further message, and when its
\* HandleConnection has returned its ClientState is gone.
C16_TransportFailureEndsLoop ==
    [][\A c \in Conns :
          /\ HandleConnection_Write(c) /\ ~last'.written[1].ok
                => connPc'[c] = "cleanup"
          /\ connPc[c] = "read" /\ transport[c] = "down" /\ connPc'[c] # connPc[c]
                => connPc'[c] = "cleanup"
          /\ connPc[c] \in {"cleanup", "closing", "closed"}
                => /\ connPc'[c] \in {"cleanup", "closing", "closed"}
                   /\ ~Handles(c, last'.msg)
                   /\ ~HandleConnection_Write(c)
          /\ connPc'[c] = "closed" => c \notin DOMAIN clients']_vars

\* the requests for an operation on the registries
OperationMsgs == {m \in SrvMsgs : /\ m.method \in ServerHandlers \ {"initialize", "initialized"}
                                  /\ m.id = NumID(1)}

\* C17: two connections whose ClientStates differ and that hold the answer
\* to the same operation request hold the same answer, when both handlers
\* found the same registry entry.  Entries of tools and prompts are never
\* replaced or removed, so two answers of the same kind (both the not-found
\* error, or both a result) were computed from the same entry.
C17_AnswersIgnoreClientState ==
    \A c, d \in Conns :
       /\ connPc[c] = "write" /\ connPc[d] = "write"
       /\ {c, d} \subseteq DOMAIN clients
       /\ clients[c] # clients[d]
       /\ out[c].msg \in OperationMsgs
       /\ out[c].msg = out[d].msg
       /\ out[c].resp.code = out[d].resp.code
       => out[c].resp = out[d].resp

\* C18: a connection handles one message at a time, in the order it reads
\* them: while the handler of a message waits, the connection handles no
\* other message; an iteration writes at most one message, the answer to the
\* message it is for (with its id), and has written it when it ends, before
\* the next message is read.
C18_OneMessageAtATime ==
    [][\A c \in Conns :
          /\ connPc[c] = "handle" /\ last'.conn = c /\ last' # last
                => last'.msg = cur[c]
          /\ connPc[c] = "handle" /\ cur'[c] # cur[c] => Handles(c, cur[c])
          /\ Handles(c, last'.msg) =>
                /\ last'.written = << >>
                /\ cur'[c] = NoSrvMsg
                /\ connPc'[c] \in {"read", "write"}
                /\ connPc'[c] = "write" =>
                      out'[c].msg = last'.msg /\ out'[c].resp.id = last'.msg.id
          /\ connPc[c] = "write"
             /\ ((last'.conn = c /\ last' # last) \/ out'[c] # out[c]) =>
                /\ HandleConnection_Write(c)
                /\ OneWrite(c)
                /\ connPc'[c] \in {"read", "cleanup"}]_vars

\* the handler of a tools/list waits for the lock: the connection is at that
\* message and has written nothing for it
C18_Witness ==
    /\ connPc["A"] = "handle"
    /\ cur["A"].method = "tools/list"
    /\ last.conn = "A"
    /\ last.msg = cur["A"]
    /\ last.written = << >>
    /\ transport["A"] = "up"

\* C19: Close leaves every call where it is and delivers nothing; a
\* sendRequest that is blocked (nothing on its channel) on a closed
\* connection stays blocked, with its pending entry, for as long as its
\* context is not done, and when it returns it returns the error of its
\* context, its pending entry removed.
C19_CloseLeavesCallsBlocked ==
    [][/\ cliConn = "open" /\ cliConn' = "closed" =>
             UNCHANGED <<callPc, callId, ret, chans, responses>>
       /\ \A g \in Callers :
             callPc[g] = "select" /\ cliConn = "closed" /\ chans[callId[g]] = << >> =>
                \/ /\ callPc'[g] = "select"
                   /\ KeyOf(callId[g]) \in DOMAIN responses'
                   /\ ret'[g] = ret[g]
                \/ /\ ctx[g] # "active"
                   /\ callPc'[g] = "idle"
                   /\ ret'[g] = RetCtx(callId[g], ctx[g])
                   /\ KeyOf(callId[g]) \notin DOMAIN responses']_vars

\* the connection is closed and its reader has stopped; one call is blocked
\* with a context that is done, the other with a context that is not
C19_Witness ==
    /\ cliConn = "closed"
    /\ readerPc = "stopped"
    /\ callPc["g1"] = "select" /\ ctx["g1"] = "canceled"
    /\ callPc["g2"] = "select" /\ ctx["g2"] = "active"
    /\ chans[callId["g1"]] = << >> /\ chans[callId["g2"]] = << >>
    /\ DOMAIN responses = {KeyOf(callId["g1"]), KeyOf(callId["g2"])}

\* the template with every token {{k}} of a supplied key k replaced by the
\* value of k, everything else verbatim
Token(k) == <<"{", "{">> \o k \o <<"}", "}">>
StartsWith(s, t) == Len(s) >= Len(t) /\ SubSeq(s, 1, Len(t)) = t
RECURSIVE Substituted(_, _)
Substituted(tpl, vs) ==
    IF tpl = << >> THEN << >>
    ELSE IF \E k \in DOMAIN vs : StartsWith(tpl, Token(k))
    THEN LET k == CHOOSE x \in DOMAIN vs : StartsWith(tpl, Token(x)) IN
         vs[k] \o Substituted(SubSeq(tpl, Len(Token(k)) + 1, Len(tpl)), vs)
    ELSE <<Head(tpl)>> \o Substituted(Tail(tpl), vs)

\* C20: a prompts/render for a registered prompt is answered with the
\* template in which every {{key}} of a supplied variable is replaced by its
\* value and every other token is left as it is; for a name that is not
\* registered it is answered with the not-found error.
C20_RenderSubstitutesSupplied ==
    [][\A c \in Conns : LET m == last'.msg IN
          Handles(c, m) /\ m.method = "prompts/render" /\ m.params.valid =>
             LET name == m.params.key IN
             IF name \notin DOMAIN prompts
             THEN out'[c].resp =
                     ErrorResponse(m.id, -32000, "prompt " \o name \o " not found")
             ELSE out'[c].resp =
                     Response(m.id,
                        [tag |-> "rendered", items |-> {},
                         text |-> Substituted(prompts[name].template,
                                              m.params.vars)])]_vars

\* C21: a tools/call for a name that is not registered is answered with the
\* not-found error, for a registered name with the fixed acknowledgment
\* {status: success}; in both cases no registry, no ClientState and not the
\* lock is changed.
C21_ToolsCallAcknowledges ==
    [][\A c \in Conns : LET m == last'.msg IN
          /\ Handles(c, m) /\ m.method = "tools/call" /\ m.params.valid =>
                /\ out'[c].resp =
                      IF m.params.key \in DOMAIN tools
                      THEN Response(m.id,
                              [tag |-> "status", items |-> {},
                               text |-> <<"s", "u", "c", "c", "e", "s", "s">>])
                      ELSE ErrorResponse(m.id, -32000,
                              "tool " \o m.params.key \o " not found")
                /\ connPc'[c] = "write"
                /\ UNCHANGED <<tools, resources, prompts, clients, mu>>
          /\ HandleConnection_Write(c) /\ out[c].msg.method = "tools/call" =>
                OneWrite(c)]_vars

\* the call of the registered t2 was acknowledged on a host where t1 is not
\* registered and a resource is
C21_Witness ==
    /\ last.msg.method = "tools/call"
    /\ last.msg.params.key = "t2"
    /\ last.written = <<Written(Response(last.msg.id, StatusSuccess), TRUE)>>
    /\ DOMAIN tools = {"t2"}
    /\ DOMAIN resources # {}
    /\ "A" \in DOMAIN clients

\* C22: a list handler returns exactly the entries its registry holds at
\* one instant of its RLock section, also with registrations and
\* resources/write on other goroutines: while a list handler is inside its
\* RLock section no registry, ClientState or lock holder changes, the answer
\* it leaves the section with is the whole registry of that moment (every
\* entry once, with the Metadata of the last write), and that answer is the
\* one message the iteration writes.
C22_ListsAreSnapshots ==
    [][/\ (\E c \in Conns : connPc[c] = "copy" \/ connPc'[c] = "copy")
            => UNCHANGED <<tools, resources, prompts, clients, mu>>
       /\ \A c \in Conns :
          /\ connPc'[c] = "copy" /\ connPc[c] # "copy" =>
                /\ connPc[c] \in {"read", "handle"}
                /\ last'.msg.method \in {"tools/list", "resources/list", "prompts/list"}
                /\ out'[c].msg = last'.msg
          /\ connPc[c] = "copy" => connPc'[c] \in {"copy", "write"} /\ out'[c].msg = out[c].msg
          /\ connPc[c] = "copy" /\ connPc'[c] = "write" =>
                LET m == out[c].msg IN
                out'[c] =
                   Out(m, Response(m.id,
                        CASE m.method = "tools/list" ->
                                [tag |-> "tools", items |-> {tools[k] : k \in DOMAIN tools},
                                 text |-> << >>]
                          [] m.method = "resources/list" ->
                                [tag |-> "resources",
                                 items |-> {resources[k] : k \in DOMAIN resources},
                                 text |-> << >>]
                          [] OTHER ->
                                [tag |-> "prompts",
                                 items |-> {prompts[k] : k \in DOMAIN prompts},
                                 text |-> << >>]), FALSE)
          /\ HandleConnection_Write(c) /\ out[c].resp.result.tag \in
                {"tools", "resources", "prompts"} =>
             /\ OneWrite(c)
             /\ connPc'[c] = IF transport[c] = "up" THEN "read" ELSE "cleanup"]_vars

\* A leaves its RLock section with the resource as the first write left it,
\* while the second write, read on B during the listing, still waits for
\* the lock
C22_Witness ==
    /\ connPc["A"] = "write"
    /\ out["A"].msg.method = "resources/list"
    /\ out["A"].resp.result.items =
          {[uri |-> "u1", type |-> "file", name |-> "n1", description |-> "d1",
            metadata |-> "m1"]}
    /\ connPc["B"] = "handle"
    /\ cur["B"].method = "resources/write"
    /\ cur["B"].params.content = "m2"
    /\ mu = "unlocked"
    /\ DOMAIN tools # {}

\* C23: a resources/read for a URI that is not registered is answered with
\* the not-found error, for a registered URI with the whole record the
\* registry holds; and the record a successful resources/write(uri, content)
\* leaves, which is what the next read returns, is the registered uri, type,
\* name and description with the Metadata equal to content.
C23_ReadReturnsLatestWrite ==
    [][\A c \in Conns : LET m == last'.msg IN
          /\ Handles(c, m) /\ m.method = "resources/read" /\ m.params.valid =>
                /\ out'[c].resp =
                      IF m.params.key \in DOMAIN resources
                      THEN Response(m.id,
                              [tag |-> "resource",
                               items |-> {resources[m.params.key]},
                               text |-> << >>])
                      ELSE ErrorResponse(m.id, -32000,
                              "resource " \o m.params.key \o " not found")
                /\ UNCHANGED <<tools, resources, prompts, clients, mu>>
          /\ HandleConnection_Write(c) /\ out[c].msg.method = "resources/read" =>
                OneWrite(c)
          /\ Handles(c, m) /\ m.method = "resources/write" /\ m.params.valid
             /\ m.params.key \in DOMAIN resources =>
                resources'[m.params.key] =
                   [uri |-> resources[m.params.key].uri,
                    type |-> resources[m.params.key].type,
                    name |-> resources[m.params.key].name,
                    description |-> resources[m.params.key].description,
                    metadata |-> m.params.content]]_vars

\* a read of u1 was answered with the record as registered and the content
\* of a write as its Metadata
C23_Witness ==
    /\ last.msg.method = "resources/read"
    /\ last.msg.params.key = "u1"
    /\ last.written =
          <<Written(Response(last.msg.id,
                       [tag |-> "resource",
                        items |-> {[uri |-> "u1", type |-> "file", name |-> "n1",
                                    description |-> "d1", metadata |-> "m2"]},
                        text |-> << >>]), TRUE)>>

\* C24: the host writes only inside the iteration that handles an inbound
\* message, at most one message per iteration, and that message carries the
\* id of the inbound message (none when the inbound message has none); for
\* the initialized notification, whose handler returns no response, it
\* writes nothing.
C24_WritesAnswerTheirMessage ==
    [][/\ last' # last =>
             \E c \in Conns :
                /\ last'.conn = c
                /\ \/ Handles(c, last'.msg) /\ last'.written = << >>
                   \/ connPc'[c] = "handle" /\ last'.written = << >>
                   \/ HandleConnection_Write(c)
       /\ \A c \in Conns : LET m == last'.msg IN
             /\ Handles(c, m) =>
                   /\ m.method = "initialized" => connPc'[c] = "read" /\ out'[c] = NoOut
                   /\ m.method # "initialized" =>
                         /\ connPc'[c] = "write"
                         /\ out'[c].msg = m
                         /\ out'[c].resp.id = m.id
             /\ HandleConnection_Write(c) =>
                   /\ Len(last'.written) = 1
                   /\ last'.written[1].msg = out[c].resp
                   /\ last'.written[1].msg.id = m.id
                   /\ m = out[c].msg
                   /\ connPc'[c] # "write"
             /\ out'[c] # out[c] => Handles(c, m) \/ HandleConnection_Write(c)]_vars

\* a tools/list that carries no id was answered with a message without id
C24_Witness ==
    /\ last.msg.method = "tools/list"
    /\ last.msg.id = AbsentID
    /\ last.written # << >>
    /\ last.written[1].ok
    /\ last.written[1].msg.id = AbsentID
    /\ last.written[1].msg.result.tag = "tools"

\* C25: no step removes a registered key or changes the entry of a tool or
\* of a prompt; the entry of a resource changes only in its Metadata, and
\* only in the step that handles a resources/write for its URI.
C25_EntriesAreImmutable ==
    [][/\ \A k \in DOMAIN tools : k \in DOMAIN tools' /\ tools'[k] = tools[k]
       /\ \A k \in DOMAIN prompts : k \in DOMAIN prompts' /\ prompts'[k] = prompts[k]
       /\ \A k \in DOMAIN resources :
             /\ k \in DOMAIN resources'
             /\ resources'[k] = [resources[k] EXCEPT !.metadata = resources'[k].metadata]
             /\ resources'[k].metadata # resources[k].metadata =>
                   /\ \E c \in Conns : Handles(c, last'.msg)
                   /\ last'.msg.method = "resources/write"
                   /\ last'.msg.params.key = k
                   /\ resources'[k].metadata = last'.msg.params.content]_vars

\* a resources/write has replaced the Metadata of u1 on a host where a tool
\* and a prompt are registered
C25_Witness ==
    /\ last.msg.method = "resources/write"
    /\ last.written # << >>
    /\ last.written[1].msg = Response(last.msg.id, StatusSuccess)
    /\ resources["u1"] = [uri |-> "u1", type |-> "file", name |-> "n1",
                          description |-> "d1", metadata |-> "m1"]
    /\ nRegs = MaxRegs
    /\ DOMAIN tools # {} \/ DOMAIN prompts # {}

\* the message Initialize sends once the handshake request has succeeded
InitializedMsg == [id |-> AbsentID, method |-> "initialized"]
\* sendRequest gave Initialize a response whose result decodes
GoodAnswer(g) ==
    /\ ret[g].kind = "response"
    /\ UnmarshalCapabilities(ret[g].msg.result)

\* C26: a step of Initialize writes the initialized notification only when
\* its initialize request returned a response whose result decoded, and then
\* at the return; an Initialize whose request failed (remote error,
\* cancellation, failed write) or whose result does not decode writes nothing
\* and returns an error.
C26_InitializedOnlyAfterAnswer ==
    [][/\ (sent' = Append(sent, InitializedMsg)
             /\ ~SendNotification("initialized"))
          => \E g \in Callers :
                /\ initPc[g] = "request"
                /\ initPc'[g] = "idle"
                /\ GoodAnswer(g)
                /\ initRet'[g] = InitRetCaps
       /\ \A g \in Callers :
             (initPc[g] = "request" /\ initPc'[g] = "idle" /\ ~GoodAnswer(g))
             => /\ sent' = sent
                /\ initRet'[g].kind = "error"
                /\ UNCHANGED <<nextID, responses, chans>>]_vars
C26_Witness ==
    /\ initRet["g1"] = InitRetErr("initialize request failed: context canceled")
    /\ initRet["g2"] = InitRetErr("initialize request failed: error sending request")
    /\ \A i \in 1..Len(sent) : sent[i].method # "initialized"

\* C27: a call of sendNotification writes one message that carries no id (or
\* nothing, when the write fails) and does nothing else: no request id is
\* allocated, no pending entry or channel is made, and no caller is left
\* waiting for a reply.
C27_NotificationIsWriteOnly ==
    [][\A method \in NotifyMethods :
          SendNotification(method)
          => /\ \/ sent' = Append(sent, [id |-> AbsentID, method |-> method])
                \/ cliConn = "closed" /\ sent' = sent
             /\ nextID' = nextID
             /\ issued' = issued
             /\ responses' = responses
             /\ chans' = chans
             /\ callPc' = callPc
             /\ initPc' = initPc]_vars
C27_Witness ==
    /\ Len(sent) = 2
    /\ sent[1] = [id |-> AbsentID, method |-> Notification]
    /\ sent[2] = [id |-> AbsentID, method |-> "initialized"]
    /\ nextID = 0
    /\ responses = << >>
    /\ DOMAIN chans = {}

\* handleMessages reads the message at the head of the connection
ReadsNotification ==
    /\ readerPc = "read"
    /\ inbound # << >>
    /\ inbound' = Tail(inbound)
    /\ Head(inbound).method = Notification

\* C28: when the reader reads a message whose method is the notification tag,
\* no channel of a pending request receives it, whatever id it carries; with
\* a handler registered the message is handed to a handler goroutine, with
\* none it is dropped; either way the reader is back at its read at once.
C28_NotificationsBypassPending ==
    [][ReadsNotification
       => /\ chans' = chans
          /\ responses' = responses
          /\ readerPc' = "read"
          /\ readerMsg' = NoMsg
          /\ spawned' = IF Notification \in handlers
                        THEN spawned \cup {Head(inbound)}
                        ELSE spawned]_vars
C28_Witness ==
    /\ \E m \in spawned : m.id = NumID(1)
    /\ KeyOf(1) \in DOMAIN responses
    /\ chans[1] = << >>
    /\ callPc["g1"] = "select"
    /\ callId["g1"] = 1
    /\ readerPc = "read"
    /\ inbound = << >>
    /\ hostSent = 2

\* C29: a NewModel call with a nil config, with an empty ModelID or with an
\* empty Provider returns no model and an error; any other call returns a
\* model whose tool table is empty, holding the config, and no error.
C29_NewModelValidates ==
    [][\A config \in ConfigPtrs :
          NewModel_Call(config)
          => IF \/ config = NilPtr
                \/ config[1].ModelID = ""
                \/ config[1].Provider = ""
             THEN model' = NilPtr /\ modelErr' # ""
             ELSE /\ model' # NilPtr
                  /\ DOMAIN model'[1].tools = {}
                  /\ model'[1].config = config[1]
                  /\ modelErr' = ""]_vars
C29_Witness ==
    /\ model = NilPtr
    /\ modelErr = "provider is required"

\* C30: the registry lock is free whenever no handler and no Register* call
\* is executing (a handler or a call that waits for the lock counts as
\* executing): whoever took the lock released it before returning.
C30_LockFreeBetweenCalls ==
    (appPc = "idle" /\ \A c \in Conns : connPc[c] # "handle")
    => mu = "unlocked"

\* C31: for every call in progress, the key the reader computes from a
\* message that echoes the call's id (the id as written by sendRequest, read
\* back by ReadJSON) is the key under which the call's entry is stored, so
\* the lookup finds the entry.
C31_EchoedIdFindsEntry ==
    \A g \in Callers :
        Pending(g, callId[g])
        => /\ DecodeID(EncodeID(Int64Val(callId[g]))) = KeyOf(callId[g])
           /\ DecodeID(EncodeID(Int64Val(callId[g]))) \in DOMAIN responses

\* C32: the reader never blocks for ever on a response: a reader that waits
\* in the send into a channel eventually completes it, and every message the
\* host has sent, several with the same id and while the waiter cancels
\* included, is eventually read with the reader back at its read (unless
\* ReadJSON failed or the process is gone).
C32_ReaderNeverBlocksForever ==
    /\ (readerPc = "send") ~> (readerPc = "read")
    /\ \A k \in 1..MaxIn :
          (hostSent >= k)
          ~> (\/ hostSent - Len(inbound) >= k /\ readerPc = "read"
              \/ readerPc \in {"stopped", "panicked"})

\* two responses with the id 1 have been read while the call with the id 1
\* is registered and its context is cancelled; the reader is at its read
C32_Witness ==
    /\ hostSent = 2
    /\ inbound = << >>
    /\ readerPc = "read"
    /\ \E g \in Callers :
          /\ callPc[g] = "select" /\ callId[g] = 1 /\ ctx[g] = "canceled"
          /\ KeyOf(1) \in DOMAIN responses

\* C33: at most one goroutine is inside a write on the Client's connection
\* at any time.
C33_OneWriterAtATime == Cardinality(Writing) <= 1

\* C34: the reader's lookup in the handler table and the write of a
\* RegisterNotificationHandler call are never in progress at the same time.
C34_HandlerTableNotRaced == ~(Looking /\ Registering)

\* C35: the text a prompts/render answer carries is the same whatever the
\* order in which the supplied variables are substituted: the answer written
\* for the last handled render equals the rendering in every order.
C35_RenderIsOrderIndependent ==
    (/\ last.msg.method = "prompts/render"
     /\ last.msg.params.valid
     /\ last.msg.params.key \in DOMAIN prompts
     /\ Len(last.written) = 1)
    => \A o \in Orders(DOMAIN last.msg.params.vars) :
          last.written[1].msg.result.text =
             RenderIn(prompts[last.msg.params.key].template,
                      last.msg.params.vars, o)

\* the methods the claim lists, and the control methods
NineMethods == {"initialize", "initialized", "tools/list", "tools/call",
                "resources/list", "resources/read", "resources/write",
                "prompts/list", "prompts/render"}
ControlMethods == {"$/notification", "$/cancelRequest"}

\* C36: at every point of a host's life a handled message is dispatched to a
\* handler exactly when its method is one of the nine, whatever was
\* registered or handled before: a message with any other method, the two
\* control methods included, is answered with the one -32601 "method not
\* found" write, and a message with one of the nine never is.
C36_DispatchTableIsFixed ==
    [][/\ \A c \in Conns : LET m == last'.msg IN
          Handles(c, m) =>
             IF m.method \in NineMethods
             THEN out'[c].resp.code # -32601
             ELSE /\ out'[c].resp = ErrorResponse(m.id, -32601, "method not found")
                  /\ connPc'[c] = "write"
       /\ \A c \in Conns :
             HandleConnection_Write(c) =>
                /\ last'.written = <<Written(out[c].resp, transport[c] = "up")>>
                /\ (last'.written[1].msg.code = -32601)
                      = (out[c].msg.method \notin NineMethods)]_vars
\* a $/cancelRequest was answered with method-not-found after the registries
\* had been filled and requests had been served
C36_Witness ==
    /\ last.msg.method = "$/cancelRequest"
    /\ last.written # << >>
    /\ last.written[1].msg.code = -32601
    /\ last.written[1].msg.message = "method not found"
    /\ DOMAIN prompts # {}
    /\ DOMAIN resources # {}

(***************************************************************************)
(* Claims about the MCPModelMixin.                                         *)
(***************************************************************************)
\* C37: StartMCPServer succeeds exactly when no server is running and then
\* installs a server with empty registries; StopMCPServer succeeds exactly
\* when one is running and then removes it; each otherwise returns an error
\* and changes nothing; RegisterMCPTool/Resource/Prompt with no server
\* running return "MCP server not running" and change nothing.
C37_ServerLifecycle ==
    [][/\ StartMCPServer
          => IF mxServer = NilPtr
             THEN /\ mxServer' = <<[tools |-> << >>, resources |-> << >>,
                                    prompts |-> << >>]>>
                  /\ mxErr' = ""
             ELSE /\ mxErr' = "MCP server already running"
                  /\ UNCHANGED <<mxServer, mxClient>>
       /\ StopMCPServer
          => IF mxServer # NilPtr
             THEN mxServer' = NilPtr /\ mxErr' = ""
             ELSE /\ mxErr' = "MCP server not running"
                  /\ UNCHANGED <<mxServer, mxClient>>
       /\ (/\ mxServer = NilPtr
           /\ \/ \E t \in ToolEntries : RegisterMCPTool(t)
              \/ \E r \in ResourceEntries : RegisterMCPResource(r)
              \/ \E p \in PromptEntries : RegisterMCPPrompt(p))
          => /\ mxErr' = "MCP server not running"
             /\ UNCHANGED <<mxServer, mxClient>>]_vars
\* the second server of the mixin is running, with nothing registered
C37_Witness ==
    /\ mxStarts = 2
    /\ mxServer # NilPtr
    /\ DOMAIN mxServer[1].tools = {}
    /\ DOMAIN mxServer[1].resources = {}
    /\ DOMAIN mxServer[1].prompts = {}
    /\ mxErr = ""

\* C38: ConnectToMCP with a client set returns an error and changes nothing,
\* with a failed dial returns an error and leaves the client nil, otherwise
\* sets the client; DisconnectFromMCP, CallMCPTool and ListMCPTools with no
\* client return "not connected to MCP server"; DisconnectFromMCP clears the
\* client when Close succeeds and keeps it, returning an error, when Close
\* fails.
C38_ClientLifecycle ==
    [][/\ \A url \in Urls, dialed \in BOOLEAN :
             ConnectToMCP(url, dialed)
             => IF mxClient # NilPtr
                THEN /\ mxErr' = "already connected to MCP server"
                     /\ UNCHANGED <<mxClient, mxServer>>
                ELSE IF dialed
                THEN mxClient' # NilPtr /\ mxErr' = ""
                ELSE mxClient' = NilPtr /\ mxErr' # ""
       /\ \A closed \in BOOLEAN :
             DisconnectFromMCP(closed)
             => IF mxClient = NilPtr
                THEN /\ mxErr' = "not connected to MCP server"
                     /\ mxClient' = NilPtr
                ELSE IF closed
                THEN mxClient' = NilPtr /\ mxErr' = ""
                ELSE mxClient' = mxClient /\ mxErr' # ""
       /\ ((CallMCPTool \/ ListMCPTools) /\ mxClient = NilPtr)
          => /\ mxErr' = "not connected to MCP server"
             /\ mxClient' = NilPtr]_vars
\* a Close that failed left the client set
C38_Witness ==
    /\ mxClient # NilPtr
    /\ mxErr = "error closing MCP connection"

(***************************************************************************)
(* Claims about the KnowledgeGraph.                                        *)
(***************************************************************************)
\* the nodes reachable from the nodes of S along the stored edges
RECURSIVE ReachableFrom(_, _)
ReachableFrom(edges, S) ==
    LET T == S \cup {EdgesAt(edges, x)[i].to : <<x, i>> \in
                        {<<x, i>> \in S \X (1..MaxEdges) :
                            i <= Len(EdgesAt(edges, x))}} IN
    IF T = S THEN S ELSE ReachableFrom(edges, T)
\* p is a chain of stored edges from the node from to the node to
IsChain(edges, p, from, to) ==
    IF p = << >> THEN from = to
    ELSE /\ p[1].from = from
         /\ p[Len(p)].to = to
         /\ \A i \in 1..Len(p) :
               \E j \in 1..Len(EdgesAt(edges, p[i].from)) :
                   edges[p[i].from][j] = p[i]
         /\ \A i \in 1..(Len(p) - 1) : p[i].to = p[i + 1].from

\* C39: a FindPath call returns, with no error, a chain of stored edges from
\* from to to when to is reachable from from along the stored edges (the
\* empty path when from = to), and the "no path found" error otherwise.
C39_FindPathFindsChains ==
    [][\A from, to \in KGNodes :
          FindPath_Call(from, to)
          => IF to \in ReachableFrom(kgEdges, {from})
             THEN /\ kgRet'.err = ""
                  /\ IsChain(kgEdges, kgRet'.path, from, to)
             ELSE /\ kgRet'.err = "no path found from " \o from \o " to " \o to
                  /\ kgRet'.path = << >>]_vars
====
